---------------------------- MODULE Spec2Model ----------------------------
(***************************************************************************)
(* A model of the Mora Bets service (Jesusyut/morabets4):                  *)
(*   - the odds math of probability.py and the fair-probability attachment *)
(*     and enrichment of odds_api.py            (specification SpecFair),  *)
(*   - the slot cache of universal_cache.py     (specification SpecCache), *)
(*   - the web gateway and paywall of app.py    (specifications Spec and   *)
(*     SpecLicense),                                                       *)
(*   - the library functions of pairing.py, ai_scout.py and probability.py *)
(*     applied to drawn inputs                  (specification SpecLib).   *)
(*                                                                         *)
(* Conventions.  An optional Python value (x or None, a dict key that may  *)
(* be missing) is a set with at most one element: None is {} and Some(x)   *)
(* is {x}.  A probability as the code computes it before rounding is an    *)
(* exact fraction <<n, d>> in lowest terms; a probability after            *)
(* round(p, 4) is an integer number of 1/10000 units.                      *)
(***************************************************************************)
EXTENDS Integers, Sequences, FiniteSets, TLC

VARIABLES
    \* ---- SpecFair: one prop row going through odds_api.py
    row,        \* the prop row (dict) being built / enriched
    phase,      \* which passes have run on the row
    pre,        \* the row as it entered enrich_prop (history)
    nv,         \* the last result of probability.no_vig_two_way and its inputs
    \* ---- SpecCache: universal_cache.py
    now,        \* the Phoenix-local clock, in minutes since 00:00 of day 0
    kv,         \* the cache store (_redis, or _mem): key -> optional [exp, val]
    lastFetch,  \* per league, the latest fetcher invocation (history)
    ret,        \* the get_or_set call that has just returned
    \* ---- Spec, SpecLicense: app.py
    session,    \* per browser session, the Flask session cookie's contents
    license_db, \* the file license_keys.json: optional map key -> record
    slot_cache, \* the slot cache behind get_or_set_slot / set_json, per league
    CRON_KEY,   \* the environment variable CRON_KEY
    issued,     \* every (key, record) a post-purchase verification issued (history)
    last,       \* the latest request and its response
    \* ---- SpecLib: one call of a library function
    libCall,    \* the function, its drawn input and, once applied, its result
    \* ---- SpecHttp: mlb_http.py, threads calling get_json
    MLB_QPS,    \* the configured rate, a fraction of requests per second
    clock,      \* time.time(), in ticks since the process started
    _lock,      \* the thread holding _lock, or ""
    _last_ts,   \* the instant _rate_limit last released a request
    _cache,     \* the in-process cache: key -> optional [ts, data]
    thread,     \* per thread, where it is in get_json and its locals
    released,   \* the instants at which _rate_limit released requests (history)
    returned,   \* the latest return of get_json (history)
    \* ---- SpecResolver: trends_l10.py, resolve_mlb_player_id
    rnow,       \* time.time(), in seconds since the process started
    _NEG_PID,   \* the negative cache: lowercased name -> optional time
    searched,   \* the lru_cache of _people_search: query -> optional result
    resolved,   \* the latest call of resolve_mlb_player_id (history)
    \* ---- SpecContextual: contextual.py, get_contextual_hit_rate_cached
    today,      \* the clock, in ticks of three hours since 00:00 of day 0
    R,          \* whether the external cache client R exists
    redis,      \* the external cache: key -> optional [val, exp]
    memo,       \* the strings held by the lru_cache of _memo_key
    computedFor,\* per key, the first payload computed for it (history)
    answer,     \* the latest call of get_contextual_hit_rate_cached (history)
    \* ---- SpecRefresh: universal_cache.py, overlapping get_or_set calls
    wall,       \* the Phoenix-local clock, in minutes since 00:00 of day 0
    _mem,       \* the cache store: key -> optional [exp, val]
    caller,     \* per caller, where it is in get_or_set and its locals
    fetches,    \* how many times a fetcher was invoked
    written,    \* the set_cached calls made, in order (history)
    \* ---- SpecPurchase: app.py, overlapping post-purchase verifications
    LICENSE_DB, \* the file license_keys.json: optional map key -> record
    buyer,      \* per purchaser, where its /verify request is and its locals
    saved,      \* the purchasers whose json.dump completed, in order (history)
    \* ---- SpecEnrich: odds_api.py, enrich_player_props over its thread pool
    batch,      \* the props handed to enrich_player_props
    future,     \* per index of the batch, the state of its enrich_prop call
    completed,  \* the indices whose call has finished, in completion order (history)
    enriched_props\* the list enrich_player_props returns, once it has

fairVars == <<row, phase, pre, nv>>
cacheVars == <<now, kv, lastFetch, ret>>
webVars == <<session, license_db, slot_cache, CRON_KEY, issued, last>>
libVars == <<libCall>>
httpVars == <<MLB_QPS, clock, _lock, _last_ts, _cache, thread, released, returned>>
resolverVars == <<rnow, _NEG_PID, searched, resolved>>
ctxVars == <<today, R, redis, memo, computedFor, answer>>
refreshVars == <<wall, _mem, caller, fetches, written>>
purchaseVars == <<LICENSE_DB, buyer, saved>>
enrichVars == <<batch, future, completed, enriched_props>>
vars == <<row, phase, pre, nv, now, kv, lastFetch, ret,
          session, license_db, slot_cache, CRON_KEY, issued, last, libCall,
          MLB_QPS, clock, _lock, _last_ts, _cache, thread, released, returned,
          rnow, _NEG_PID, searched, resolved,
          today, R, redis, memo, computedFor, answer,
          wall, _mem, caller, fetches, written,
          LICENSE_DB, buyer, saved,
          batch, future, completed, enriched_props>>

\* what the actions of one part leave alone: the variables of the other parts
exceptFair == <<cacheVars, webVars, libVars, httpVars, resolverVars, ctxVars, refreshVars, purchaseVars, enrichVars>>
exceptCache == <<fairVars, webVars, libVars, httpVars, resolverVars, ctxVars, refreshVars, purchaseVars, enrichVars>>
exceptWeb == <<fairVars, cacheVars, libVars, httpVars, resolverVars, ctxVars, refreshVars, purchaseVars, enrichVars>>
exceptLib == <<fairVars, cacheVars, webVars, httpVars, resolverVars, ctxVars, refreshVars, purchaseVars, enrichVars>>
exceptHttp == <<fairVars, cacheVars, webVars, libVars, resolverVars, ctxVars, refreshVars, purchaseVars, enrichVars>>
exceptResolver == <<fairVars, cacheVars, webVars, libVars, httpVars, ctxVars, refreshVars, purchaseVars, enrichVars>>
exceptCtx == <<fairVars, cacheVars, webVars, libVars, httpVars, resolverVars, refreshVars, purchaseVars, enrichVars>>
exceptRefresh == <<fairVars, cacheVars, webVars, libVars, httpVars, resolverVars, ctxVars, purchaseVars, enrichVars>>
exceptPurchase == <<fairVars, cacheVars, webVars, libVars, httpVars, resolverVars, ctxVars, refreshVars, enrichVars>>
exceptEnrich == <<fairVars, cacheVars, webVars, libVars, httpVars, resolverVars, ctxVars, refreshVars, purchaseVars>>

----------------------------------------------------------------------------
(* Optional values *)

None == {}
Some(x) == {x}
Get(o) == CHOOSE x \in o : TRUE
IsNone(o) == o = {}
NotNone(o) == o # {}

Abs(x) == IF x < 0 THEN -x ELSE x

RECURSIVE GCD(_, _)
GCD(a, b) == IF b = 0 THEN a ELSE GCD(b, a % b)

\* the fraction n/d (d > 0, n >= 0) in lowest terms
Frac(n, d) == LET g == GCD(n, d) IN <<n \div g, d \div g>>

FracAdd(p, q) == Frac(p[1] * q[2] + q[1] * p[2], p[2] * q[2])
FracDiv(p, q) == Frac(p[1] * q[2], p[2] * q[1])
FracLess(p, q) == p[1] * q[2] < q[1] * p[2]
FracOne == <<1, 1>>
FracZero == <<0, 1>>
\* 1 - p for 0 <= p <= 1
FracCompl(p) == Frac(p[2] - p[1], p[2])

----------------------------------------------------------------------------
(* probability.py *)

\* american_to_prob: None for None, 100/(o+100) for o > 0, (-o)/(100-o) otherwise
american_to_prob(odds) ==
    IF IsNone(odds) THEN None
    ELSE LET o == Get(odds) IN
         IF o > 0 THEN Some(Frac(100, o + 100)) ELSE Some(Frac(-o, 100 - o))

\* a variant that forgets to divide by the sum
no_vig_unnormalised(odds_a, odds_b) ==
    <<american_to_prob(odds_a), american_to_prob(odds_b)>>

\* no_vig_two_way: (None, None) when an implied probability is None or 0
\* ("not pa") or the sum is 0; otherwise (pa/s, pb/s)
no_vig_two_way(odds_a, odds_b) ==
    LET pa == american_to_prob(odds_a)
        pb == american_to_prob(odds_b)
    IN  IF IsNone(pa) \/ IsNone(pb) \/ pa = Some(FracZero) \/ pb = Some(FracZero)
        THEN <<None, None>>
        ELSE LET s == FracAdd(Get(pa), Get(pb)) IN
             IF s = FracZero THEN <<None, None>>
             ELSE <<Some(FracDiv(Get(pa), s)), Some(FracDiv(Get(pb), s))>>

\* american_to_implied: 100/(v+100) for v > 0, |v|/(|v|+100) otherwise
american_to_implied(o) ==
    IF o > 0 THEN Frac(100, o + 100) ELSE Frac(Abs(o), Abs(o) + 100)

\* implieds_to_no_vig: (None, None) when the sum is <= 0
implieds_to_no_vig(p_a, p_b) ==
    LET s == FracAdd(p_a, p_b) IN
    IF s[1] <= 0 THEN <<None, None>>
    ELSE <<Some(FracDiv(p_a, s)), Some(FracDiv(p_b, s))>>

\* probability.fair_probs_from_two_sided
prob_fair_probs_from_two_sided(odds_a, odds_b) ==
    implieds_to_no_vig(american_to_implied(odds_a), american_to_implied(odds_b))


----------------------------------------------------------------------------
(* Rounding.  round(x, 4) and round(x) are Python's correctly rounded      *)
(* round-half-even on the float's exact binary value.  A fraction that is  *)
(* a decimal tie is rounded either way, depending on whether the float     *)
(* nearest to it lies above or below the tie: the direction of a tie is an *)
(* input (up) of the operations that round.                                *)

\* round(n/d, 4) in 1/10000 units, n >= 0, d > 0
Round4(p, up) ==
    LET x == (p[1] * 10000) \div p[2]
        r == (p[1] * 10000) % p[2]
    IN  IF 2 * r < p[2] THEN x
        ELSE IF 2 * r > p[2] THEN x + 1
        ELSE IF up THEN x + 1 ELSE x

\* int(round(n/d)), n >= 0, d > 0, ties to even
RoundInt(n, d) ==
    LET x == n \div d
        r == n % d
    IN  IF 2 * r < d THEN x
        ELSE IF 2 * r > d THEN x + 1
        ELSE IF x % 2 = 0 THEN x ELSE x + 1

\* odds_api.fair_odds_from_prob: 0 outside (0,1); -100p/(1-p) for p >= 0.5,
\* 100(1-p)/p below
fair_odds_from_prob(p) ==
    IF p[1] <= 0 \/ p[1] >= p[2] THEN 0
    ELSE IF 2 * p[1] >= p[2] THEN -RoundInt(100 * p[1], p[2] - p[1])
    ELSE RoundInt(100 * (p[2] - p[1]), p[1])

\* probability.decimal_to_american applied to dec = 1/p: b = (1-p)/p
decimal_to_american_of_inverse(p) ==
    IF p[2] <= p[1] THEN 0
    ELSE IF p[2] - p[1] >= p[1] THEN RoundInt(100 * (p[2] - p[1]), p[1])
    ELSE -RoundInt(100 * p[1], p[2] - p[1])

\* probability.fair_odds_from_prob
prob_fair_odds_from_prob(p) ==
    IF p[1] <= 0 \/ p[1] >= p[2] THEN 0 ELSE decimal_to_american_of_inverse(p)

----------------------------------------------------------------------------
(* odds_api.py: prop rows *)

\* the tie directions of the two round(.., 4) calls of one attachment
Ties == [over : BOOLEAN, under : BOOLEAN]

\* "x or y" on strings: the empty string is falsy
OrStr(a, b) == IF a # "" THEN a ELSE b

\* (shop.get(side) or {}).get("american")
SideAmerican(side) == IF IsNone(side) THEN None ELSE Some(Get(side).american)
\* (shop.get(side) or {}).get("book"), None read as falsy
SideBook(side) == IF IsNone(side) THEN "" ELSE Get(side).book

\* row["fair"] after the two setdefault calls of _attach_fair_or_implied
FairOrDefault(r) ==
    IF IsNone(r.fair)
    THEN [prob |-> [over |-> 0, under |-> 0], american |-> None, book |-> None]
    ELSE Get(r.fair)

\* a variant that keeps the vig: the two implied probabilities as they are
raw_implied_pair(over_am, under_am) ==
    <<american_to_prob(over_am), american_to_prob(under_am)>>

\* odds_api.fair_probs_from_two_sided: no_vig_two_way(int(over), int(under))
fair_probs_from_two_sided(over_am, under_am) == no_vig_two_way(over_am, under_am)

\* the one-sided and fallback branches: the priced side gets round(p, 4), the
\* other round(1.0 - p, 4)
ImpliedFair(f, am, side, book, t) ==
    LET p == Get(american_to_prob(am))
        a == Round4(p, IF side = "over" THEN t.over ELSE t.under)
        b == Round4(FracCompl(p), IF side = "over" THEN t.under ELSE t.over)
    IN  [f EXCEPT !.prob = IF side = "over" THEN [over |-> a, under |-> b]
                           ELSE [over |-> b, under |-> a],
                  !.book = Some(book)]

\* a variant with the two-sided branch alone
attach_two_sided_only(r, t) ==
    LET over_am  == SideAmerican(r.shop.over)
        under_am == SideAmerican(r.shop.under)
        two      == IF NotNone(over_am) /\ NotNone(under_am)
                    THEN fair_probs_from_two_sided(over_am, under_am)
                    ELSE <<None, None>>
    IN  IF NotNone(two[1]) /\ NotNone(two[2])
        THEN [r EXCEPT !.fair = Some(
                 [prob |-> [over  |-> Round4(Get(two[1]), t.over),
                            under |-> Round4(Get(two[2]), t.under)],
                  american |-> None,
                  book |-> Some(r.bookmaker)])]
        ELSE [r EXCEPT !.fair = Some(FairOrDefault(r))]

\* _attach_fair_or_implied lines 134-180
_attach_fair_or_implied(r, t) ==
    LET over_am  == SideAmerican(r.shop.over)
        under_am == SideAmerican(r.shop.under)
        fallback == r.odds
        f        == FairOrDefault(r)
        two      == IF NotNone(over_am) /\ NotNone(under_am)
                    THEN fair_probs_from_two_sided(over_am, under_am)
                    ELSE <<None, None>>
    IN  IF NotNone(over_am) /\ NotNone(under_am) /\ NotNone(two[1]) /\ NotNone(two[2])
        THEN [r EXCEPT !.fair = Some(
                 [prob |-> [over  |-> Round4(Get(two[1]), t.over),
                            under |-> Round4(Get(two[2]), t.under)],
                  american |-> Some([over  |-> fair_odds_from_prob(Get(two[1])),
                                     under |-> fair_odds_from_prob(Get(two[2]))]),
                  book |-> Some(OrStr(SideBook(r.shop.over),
                                 OrStr(SideBook(r.shop.under), r.bookmaker)))])]
        ELSE IF NotNone(over_am) /\ IsNone(under_am)
        THEN [r EXCEPT !.fair = Some(ImpliedFair(f, over_am, "over",
                                   OrStr(SideBook(r.shop.over), r.bookmaker), t))]
        ELSE IF NotNone(under_am) /\ IsNone(over_am)
        THEN [r EXCEPT !.fair = Some(ImpliedFair(f, under_am, "under",
                                   OrStr(SideBook(r.shop.under), r.bookmaker), t))]
        ELSE IF NotNone(fallback)
        THEN [r EXCEPT !.fair = Some(ImpliedFair(f, fallback, "over", r.bookmaker, t))]
        ELSE [r EXCEPT !.fair = Some(f)]

\* _is_zero_prob: a missing fair or prob reads as 0/0
_is_zero_prob(r) ==
    IsNone(r.fair) \/ (Get(r.fair).prob.over = 0 /\ Get(r.fair).prob.under = 0)

\* _ensure_shop_and_fallback: an empty shop and a generic price give shop.over
_ensure_shop_and_fallback(r) ==
    IF IsNone(r.shop.over) /\ IsNone(r.shop.under) /\ NotNone(r.odds)
    THEN [r EXCEPT !.shop.over = Some([american |-> Get(r.odds), book |-> r.bookmaker])]
    ELSE r

\* _finalize_fair on one row of the list
_finalize_fair(r, t) ==
    IF _is_zero_prob(r) THEN _attach_fair_or_implied(_ensure_shop_and_fallback(r), t)
    ELSE r

----------------------------------------------------------------------------
(* odds_api.enrich_prop *)

\* hit rates are in 1/1000 units
CONTEXTUAL_FALLBACK == 300
FANTASY_FALLBACK == 350
\* what the lookups of one enrich_prop call do: get_contextual_hit_rate returns
\* a payload ("ok"), a payload with an error key, nothing, or raises; the
\* multiplier block runs or raises; get_fantasy_hit_rate returns, returns
\* nothing or raises
LiveRates == {0, 420}
Multipliers == {90, 100, 250}
Lookups == [ctx : {"ok", "error", "none", "raise"}, rate : LiveRates,
            enh : {"ok", "raise"}, mult : Multipliers,
            fan : {"ok", "none", "raise"}]

Min(a, b) == IF a < b THEN a ELSE b
Max(a, b) == IF a > b THEN a ELSE b

\* lines 708-736: the contextual payload, or the 0.30 fallback when the lookup
\* raised, returned nothing or returned an error payload
ContextualOf(env) ==
    IF env.ctx = "ok"
    THEN [hit_rate |-> env.rate, fallback |-> FALSE, enhanced_hit_rate |-> None]
    ELSE [hit_rate |-> CONTEXTUAL_FALLBACK, fallback |-> TRUE, enhanced_hit_rate |-> None]

\* lines 738-793: the multipliers, applied when the block does not raise and the
\* base rate is a positive number; the result is capped to [0.05, 0.95]
EnhancedOf(c, env) ==
    IF env.enh = "ok" /\ c.hit_rate > 0
    THEN [c EXCEPT !.enhanced_hit_rate =
             Some(Min(950, Max(50, RoundInt(c.hit_rate * env.mult, 100))))]
    ELSE c

\* lines 795-817: the fantasy payload or the 0.35 fallback
FantasyOf(env) ==
    IF env.fan = "ok" THEN [hit_rate |-> env.rate, fallback |-> FALSE]
    ELSE [hit_rate |-> FANTASY_FALLBACK, fallback |-> TRUE]

\* the nested _attach_fair / set_fair of lines 831-869 on a 0/0 row: only the
\* two-sided branch is called (over_price, under_price)
RecomputeFair(prop, t) ==
    LET over_am  == SideAmerican(prop.shop.over)
        under_am == SideAmerican(prop.shop.under)
        f        == Get(prop.fair)
    IN  IF NotNone(over_am) /\ NotNone(under_am)
        THEN LET pp == prob_fair_probs_from_two_sided(Get(over_am), Get(under_am)) IN
             IF IsNone(pp[1]) \/ f.prob.over # 0 \/ f.prob.under # 0 THEN prop
             ELSE [prop EXCEPT !.fair = Some(
                     [f EXCEPT !.prob = [over  |-> Round4(Get(pp[1]), t.over),
                                         under |-> Round4(Get(pp[2]), t.under)],
                               !.american =
                                   Some([over  |-> prob_fair_odds_from_prob(Get(pp[1])),
                                         under |-> prob_fair_odds_from_prob(Get(pp[2]))])])]
        ELSE prop

\* a variant that recomputes whatever the row already holds
ClobberFair(prop, t) ==
    IF IsNone(prop.fair) THEN prop
    ELSE RecomputeFair([prop EXCEPT !.fair =
             Some([Get(prop.fair) EXCEPT !.prob = [over |-> 0, under |-> 0]])], t)

\* lines 819-873: an existing non-zero fair.prob is kept; a 0/0 one is recomputed
PreserveOrRecomputeFair(prop, t) ==
    IF IsNone(prop.fair) THEN prop
    ELSE IF Get(prop.fair).prob.over # 0 \/ Get(prop.fair).prob.under # 0 THEN prop
    ELSE RecomputeFair(prop, t)

\* enrich_prop.  A row without a "player" key raises KeyError in the handler of
\* the first lookup, which the outer handler turns into the enrichment-failed row
enrich_prop(prop, env, t) ==
    IF IsNone(prop.player)
    THEN [prop EXCEPT
             !.contextual_hit_rate = Some([hit_rate |-> CONTEXTUAL_FALLBACK,
                                           fallback |-> TRUE, enhanced_hit_rate |-> None]),
             !.fantasy_hit_rate = Some([hit_rate |-> FANTASY_FALLBACK, fallback |-> TRUE]),
             !.enriched = Some(FALSE),
             !.error = TRUE]
    ELSE [PreserveOrRecomputeFair(prop, t) EXCEPT
             !.contextual_hit_rate = Some(EnhancedOf(ContextualOf(env), env)),
             !.fantasy_hit_rate = Some(FantasyOf(env)),
             !.enriched = Some(TRUE)]

----------------------------------------------------------------------------
(* SpecFair: one row through attachment, finalization and enrichment *)

MaxOddsK == 3
\* American prices: favourites -100, -110, ..., longshots 100, 150, ..., the
\* prices +540/-540 whose implied probability is a 4-decimal tie, and 0
OddsVals == {0, 540, -540} \cup {100 + 50 * k : k \in 0..MaxOddsK}
                           \cup {-(100 + 10 * k) : k \in 0..MaxOddsK}
OddsOrNone == {None} \cup {Some(o) : o \in OddsVals}
FallbackOdds == {None, Some(-110), Some(0)}

ShopSide(o, book) == IF IsNone(o) THEN None ELSE Some([american |-> Get(o), book |-> book])

\* lines 620-650 of fetch_player_props, generalised to rows with no shop
RawRow(pl, o, u, od) ==
    [player |-> pl,
     shop |-> [over |-> ShopSide(o, "fanduel"), under |-> ShopSide(u, "draftkings")],
     odds |-> od,
     bookmaker |-> IF NotNone(o) THEN "fanduel" ELSE IF NotNone(u) THEN "draftkings" ELSE "",
     fair |-> None,
     contextual_hit_rate |-> None,
     fantasy_hit_rate |-> None,
     enriched |-> None,
     error |-> FALSE]

RawRows == {RawRow(pl, o, u, od) : pl \in {None, Some("Mookie Betts")},
                                   o \in OddsOrNone, u \in OddsOrNone, od \in FallbackOdds}

NoCall == [called |-> FALSE, a |-> None, b |-> None, pa |-> None, pb |-> None,
           out |-> <<None, None>>]

FairInit ==
    /\ row \in RawRows
    /\ phase = [attached |-> FALSE, finalized |-> FALSE, enriched |-> FALSE, last |-> "build"]
    /\ pre = row
    /\ nv = NoCall

\* fetch_player_props line 653
AttachFairOrImplied ==
    /\ ~phase.attached /\ ~phase.enriched
    /\ \E t \in Ties : row' = _attach_fair_or_implied(row, t)
    /\ phase' = [phase EXCEPT !.attached = TRUE, !.last = "attach"]
    /\ UNCHANGED <<pre, nv, exceptFair>>

\* fetch_player_props line 661
FinalizeFair ==
    /\ phase.attached /\ ~phase.finalized
    /\ \E t \in Ties : row' = _finalize_fair(row, t)
    /\ phase' = [phase EXCEPT !.finalized = TRUE, !.last = "finalize"]
    /\ UNCHANGED <<pre, nv, exceptFair>>

\* enrich_player_props line 910: enrich_prop on the row
EnrichProp ==
    /\ ~phase.enriched
    /\ \E env \in Lookups, t \in Ties : row' = enrich_prop(row, env, t)
    /\ pre' = row
    /\ phase' = [phase EXCEPT !.enriched = TRUE, !.last = "enrich"]
    /\ UNCHANGED <<nv, exceptFair>>

\* probability.no_vig_two_way on the row's two prices
NoVigTwoWayCall ==
    /\ ~nv.called
    /\ LET a == SideAmerican(row.shop.over)
           b == SideAmerican(row.shop.under)
       IN  nv' = [called |-> TRUE, a |-> a, b |-> b,
                  pa |-> american_to_prob(a), pb |-> american_to_prob(b),
                  out |-> no_vig_two_way(a, b)]
    /\ UNCHANGED <<row, phase, pre, exceptFair>>

FairNext == AttachFairOrImplied \/ FinalizeFair \/ EnrichProp \/ NoVigTwoWayCall

FairIdle ==
    /\ row = RawRow(None, None, None, None)
    /\ phase = [attached |-> FALSE, finalized |-> FALSE, enriched |-> FALSE, last |-> "build"]
    /\ pre = row
    /\ nv = NoCall

----------------------------------------------------------------------------
(* Claims about the fair-probability pipeline *)

Resolved(r) ==
    NotNone(r.fair) /\ (Get(r.fair).prob.over # 0 \/ Get(r.fair).prob.under # 0)

\* C8: a row that enters enrich_prop with a non-zero fair.prob side leaves it
\* with the same fair (prob, american, book), on the success path and on the
\* enrichment-failed path, and carries contextual_hit_rate, fantasy_hit_rate
\* and enriched afterwards.
C8_EnrichKeepsResolvedFair ==
    (phase.last = "enrich" /\ Resolved(pre))
        => /\ row.fair = pre.fair
           /\ NotNone(row.contextual_hit_rate)
           /\ NotNone(row.fantasy_hit_rate)
           /\ NotNone(row.enriched)
           /\ IsNone(pre.contextual_hit_rate) /\ IsNone(pre.enriched)

C8_Witness ==
    /\ phase.last = "enrich" /\ Resolved(pre)
    /\ row.enriched = Some(TRUE)
    /\ Get(row.fair).prob = [over |-> 5238, under |-> 4762]
    /\ NotNone(Get(row.contextual_hit_rate).enhanced_hit_rate)

\* C9: after _attach_fair_or_implied and after _finalize_fair, fair.prob is the
\* 0/0 placeholder or, when both sides are non-zero, sums to 1.0 within one
\* unit of the fourth decimal.
C9_FairProbSumsToOne ==
    phase.last \in {"attach", "finalize"}
        => /\ NotNone(row.fair)
           /\ LET p == Get(row.fair).prob IN
              (p.over # 0 /\ p.under # 0) => Abs(p.over + p.under - 10000) <= 1

C9_Witness ==
    /\ phase.last = "finalize"
    /\ NotNone(row.shop.over) /\ NotNone(row.shop.under)
    /\ Get(row.shop.over).american = -110 /\ Get(row.shop.under).american = -120
    /\ Get(row.fair).prob.over > 0 /\ Get(row.fair).prob.under > 0

\* a price anywhere on the row: shop.over, shop.under or the generic odds
HasPrice(r) == NotNone(r.shop.over) \/ NotNone(r.shop.under) \/ NotNone(r.odds)
\* lines 640-641 of the per-event build: the generic odds of a row with a
\* shop is the price of (over or under)
OddsAsBuilt(r) ==
    IF NotNone(r.shop.over) THEN r.odds = Some(Get(r.shop.over).american)
    ELSE IF NotNone(r.shop.under) THEN r.odds = Some(Get(r.shop.under).american)
    ELSE TRUE

\* C23: after the per-event build (_attach_fair_or_implied) and the
\* finalization pass (_finalize_fair), a row whose generic odds is the price
\* the build gave it is at the 0/0 placeholder if and only if it has no price
\* anywhere: no shop.over, no shop.under and no generic odds.
C23_PlaceholderIffNoPrice ==
    (phase.last = "finalize" /\ ~phase.enriched /\ OddsAsBuilt(row))
        => (_is_zero_prob(row) <=> ~HasPrice(row))

\* over at 0 and under at -110: no no-vig pair (the over's implied
\* probability is 0), and the fallback on the generic odds gives 0.0 / 1.0
C23_Witness ==
    /\ phase.last = "finalize" /\ ~phase.enriched /\ OddsAsBuilt(row)
    /\ NotNone(row.shop.over) /\ NotNone(row.shop.under)
    /\ Get(row.shop.over).american = 0 /\ Get(row.shop.under).american = -110
    /\ Get(row.fair).prob = [over |-> 0, under |-> 10000]

FracInUnit(q) == NotNone(q) /\ 0 < Get(q)[1] /\ Get(q)[1] < Get(q)[2]
NonZeroOdds(o) == NotNone(o) /\ Get(o) # 0

\* C10: for o # 0 american_to_prob(o) is strictly between 0 and 1, and for two
\* non-zero prices no_vig_two_way returns two probabilities, each strictly
\* between 0 and 1, whose sum is exactly 1.
C10_NoVigSumsToOne ==
    nv.called
        => /\ NonZeroOdds(nv.a) => FracInUnit(nv.pa)
           /\ NonZeroOdds(nv.b) => FracInUnit(nv.pb)
           /\ (NonZeroOdds(nv.a) /\ NonZeroOdds(nv.b))
                 => /\ FracInUnit(nv.out[1]) /\ FracInUnit(nv.out[2])
                    /\ FracAdd(Get(nv.out[1]), Get(nv.out[2])) = FracOne

C10_Witness ==
    /\ nv.called /\ nv.a = Some(-110) /\ nv.b = Some(150)
    /\ nv.out = <<Some(<<55, 97>>), Some(<<42, 97>>)>>

----------------------------------------------------------------------------
(* universal_cache.py *)

MaxDay == 2
MinutesPerDay == 24 * 60
\* the instants the clock visits on each day: 00:00, 07:59, 08:00, 13:00,
\* 17:59, 18:00, 23:59
ClockMarks == {0, 479, 480, 780, 1079, 1080, 1439}
TimePoints == {d * MinutesPerDay + m : d \in 0..(MaxDay - 1), m \in ClockMarks}

CacheLeagues == {"mlb", "nfl"}
SlotNames == {"morning", "afternoon", "night"}

DayOf(t) == t \div MinutesPerDay
HourOf(t) == (t % MinutesPerDay) \div 60
\* dt.replace(hour=h, minute=0, second=0, microsecond=0)
AtHour(day, h) == day * MinutesPerDay + h * 60

\* a variant whose evening branch forgets timedelta(days=1)
current_slot_same_day(dt) ==
    LET h == HourOf(dt) IN
    IF h < 8 THEN <<"night", AtHour(DayOf(dt), 8)>>
    ELSE IF h < 13 THEN <<"morning", AtHour(DayOf(dt), 13)>>
    ELSE IF h < 18 THEN <<"afternoon", AtHour(DayOf(dt), 18)>>
    ELSE <<"night", AtHour(DayOf(dt), 8)>>

\* current_slot: (slot_name, next_boundary_local)
current_slot(dt) ==
    LET h == HourOf(dt) IN
    IF h < 8 THEN <<"night", AtHour(DayOf(dt), 8)>>
    ELSE IF h < 13 THEN <<"morning", AtHour(DayOf(dt), 13)>>
    ELSE IF h < 18 THEN <<"afternoon", AtHour(DayOf(dt), 18)>>
    ELSE <<"night", AtHour(DayOf(dt) + 1, 8)>>

\* _key: f"props:{league}:{d}:{slot}" with d the local calendar date
_key(league, dt) == <<"props", league, DayOf(dt), current_slot(dt)[1]>>

CacheKeys == {<<"props", l, d, sl>> : l \in CacheLeagues, d \in 0..(MaxDay - 1), sl \in SlotNames}

\* _ttl_seconds: the time to the boundary, at least 60 s (one minute)
_ttl_seconds(next_boundary, t) == Max(next_boundary - t, 1)

\* json.dumps / json.loads of a fetched value; "null" is Python's None
Dumps(value) == <<"json", value>>
Loads(raw) == raw[2]

\* get_cached: the stored value when the key is present and unexpired
get_cached(store, league, t) ==
    LET rec == store[_key(league, t)] IN
    IF NotNone(rec) /\ Get(rec).exp > t THEN Loads(Get(rec).val) ELSE "null"

\* a store that keeps the entry it already has (set-if-absent)
set_cached_if_absent(store, league, value, t) ==
    IF NotNone(store[_key(league, t)]) THEN store
    ELSE [store EXCEPT ![_key(league, t)] =
             Some([exp |-> t + _ttl_seconds(current_slot(t)[2], t),
                   val |-> Dumps(value)])]

\* set_cached: the store after setex(k, ttl, raw) / _mem[k] = {exp, val}
set_cached(store, league, value, t) ==
    [store EXCEPT ![_key(league, t)] =
        Some([exp |-> t + _ttl_seconds(current_slot(t)[2], t), val |-> Dumps(value)])]

\* what a fetcher does: raises, returns None or returns props
FetchOutcomes == {"raise", "null", "props-a", "props-b"}

NoRet == [called |-> FALSE, league |-> "", t |-> 0, slot |-> <<"", 0>>,
          fetched |-> FALSE, val |-> "null", prev |-> None]

CacheInit ==
    /\ now \in {t \in TimePoints : DayOf(t) = 0}
    /\ kv = [k \in CacheKeys |-> None]
    /\ lastFetch = [l \in CacheLeagues |-> None]
    /\ ret = NoRet

CacheIdle ==
    /\ now = 0
    /\ kv = [k \in CacheKeys |-> None]
    /\ lastFetch = [l \in CacheLeagues |-> None]
    /\ ret = NoRet

\* get_or_set(league, fetcher) at the current instant; out is what the fetcher
\* does if it is invoked
GetOrSet(league, out) ==
    LET data == get_cached(kv, league, now)
        call == [called |-> TRUE, league |-> league, t |-> now,
                 slot |-> current_slot(now), fetched |-> FALSE, val |-> data,
                 prev |-> lastFetch[league]]
    IN  IF data # "null"
        THEN /\ ret' = call
             /\ UNCHANGED <<now, kv, lastFetch, exceptCache>>
        ELSE /\ ret' = [call EXCEPT !.fetched = TRUE, !.val = out]
             /\ lastFetch' = [lastFetch EXCEPT ![league] = Some([t |-> now, val |-> out])]
             /\ kv' = IF out = "raise" THEN kv ELSE set_cached(kv, league, out, now)
             /\ UNCHANGED <<now, exceptCache>>

\* the clock moves on; an entry whose exp has passed is never read again
\* (the external store drops it, _mem keeps it until it is overwritten)
Tick ==
    /\ \E t \in TimePoints : t > now /\ now' = t
    /\ kv' = [k \in CacheKeys |->
                 IF NotNone(kv[k]) /\ Get(kv[k]).exp > now' THEN kv[k] ELSE None]
    /\ ret' = NoRet
    /\ UNCHANGED <<lastFetch, exceptCache>>

CacheNext == (\E l \in CacheLeagues, out \in FetchOutcomes : GetOrSet(l, out)) \/ Tick

----------------------------------------------------------------------------
(* Claims about the slot cache *)

\* the start of the slot interval that holds t: morning [08:00,13:00),
\* afternoon [13:00,18:00), night [18:00, 08:00 of the next day)
SlotStart(t) ==
    LET m == t % MinutesPerDay
        d == DayOf(t) * MinutesPerDay
    IN  IF m >= 1080 THEN d + 1080
        ELSE IF m >= 780 THEN d + 780
        ELSE IF m >= 480 THEN d + 480
        ELSE d - MinutesPerDay + 1080

SameSlotInterval(t1, t2) == SlotStart(t1) = SlotStart(t2)

\* C6: within one slot interval, once the fetcher has returned a non-null
\* value for a league, a later get_or_set for that league does not invoke the
\* fetcher again and returns the value the first one stored.
C6_OneRefreshPerSlot ==
    ( /\ ret.called /\ NotNone(ret.prev)
      /\ Get(ret.prev).val \notin {"null", "raise"}
      /\ SameSlotInterval(Get(ret.prev).t, ret.t) )
        => (~ret.fetched /\ ret.val = Get(ret.prev).val)

ExpectedSlotName(t) ==
    LET m == t % MinutesPerDay IN
    IF 480 <= m /\ m < 780 THEN "morning"
    ELSE IF 780 <= m /\ m < 1080 THEN "afternoon"
    ELSE "night"

SlotBoundaries == {d * MinutesPerDay + b : d \in 0..MaxDay, b \in {480, 780, 1080}}

NextBoundaryAfter(t) ==
    CHOOSE b \in SlotBoundaries : b > t /\ \A c \in SlotBoundaries : c > t => b <= c

\* C7: current_slot(t) names the slot by 08:00 <= t < 13:00 (morning),
\* 13:00 <= t < 18:00 (afternoon), night otherwise, and its next boundary is
\* the earliest 08:00/13:00/18:00 instant strictly after t.
C7_CurrentSlot ==
    ret.called => ret.slot = <<ExpectedSlotName(ret.t), NextBoundaryAfter(ret.t)>>

C7_Witness ==
    /\ ret.called /\ ret.t = 1080
    /\ ret.slot = <<"night", MinutesPerDay + 480>>

----------------------------------------------------------------------------
(* app.py: strings.  A string is a sequence of one-character strings. *)

LowerLetters == <<"a", "d", "e", "g", "h", "i", "j", "k", "m", "n", "o", "r", "s", "u", "z">>
UpperLetters == <<"A", "D", "E", "G", "H", "I", "J", "K", "M", "N", "O", "R", "S", "U", "Z">>

\* the dotless i of Turkish names: upper() maps it to "I", whose lower() is
\* "i"; lower() leaves it alone
DOTLESS_I == "i-dotless"

\* str.lower / str.upper on one character
LowerChar(c) ==
    IF \E i \in 1..Len(UpperLetters) : UpperLetters[i] = c
    THEN LowerLetters[CHOOSE i \in 1..Len(UpperLetters) : UpperLetters[i] = c]
    ELSE c
UpperChar(c) ==
    IF c = DOTLESS_I THEN "I"
    ELSE IF \E i \in 1..Len(LowerLetters) : LowerLetters[i] = c
    THEN UpperLetters[CHOOSE i \in 1..Len(LowerLetters) : LowerLetters[i] = c]
    ELSE c

Lower(str) == [i \in 1..Len(str) |-> LowerChar(str[i])]
Upper(str) == [i \in 1..Len(str) |-> UpperChar(str[i])]

RECURSIVE LStrip(_)
LStrip(str) == IF str # <<>> /\ Head(str) = " " THEN LStrip(Tail(str)) ELSE str
RECURSIVE RStrip(_)
RStrip(str) ==
    IF str # <<>> /\ str[Len(str)] = " " THEN RStrip(SubSeq(str, 1, Len(str) - 1)) ELSE str
\* str.strip()
Strip(str) == LStrip(RStrip(str))

\* str.split()[-1]: the last whitespace-separated word; <<>> stands for the
\* IndexError of an empty or blank string
RECURSIVE LastWordOf(_)
LastWordOf(str) ==
    IF str = <<>> THEN <<>>
    ELSE IF str[Len(str)] = " " THEN <<>>
    ELSE LastWordOf(SubSeq(str, 1, Len(str) - 1)) \o <<str[Len(str)]>>
LastWord(str) == LastWordOf(RStrip(str))

----------------------------------------------------------------------------
(* app.py: the license store and the key checks *)

MASTER_KEY == <<"m", "o", "r", "a", "-", "k", "i", "n", "g">>

\* json.load(open(LICENSE_DB)): the map, or an exception when the file is missing
LoadFails(db) == IsNone(db)
Keys(db) == IF IsNone(db) THEN <<>> ELSE Get(db)

\* a license record {email, plan} is a non-empty dict, hence truthy
Truthy(rec) == DOMAIN rec # {}

\* verify_key, dashboard, dashboard_legacy: the loop
\*   for key in keys: if key.upper() == user_key.upper() and keys[key]
UpperMatch(keys, user_key) ==
    \E key \in DOMAIN keys : Upper(key) = Upper(user_key) /\ Truthy(keys[key])

\* validate_key line 305: request.form.get('key', '').strip().lower()
ValidateNormalise(form_key) == Lower(Strip(form_key))

\* verify_key lines 281-300
VerifyKeyValid(db, arg_key) ==
    ~LoadFails(db) /\ UpperMatch(Keys(db), Strip(arg_key))

\* validate_key lines 305-329: "master", "premium" or "invalid"
ValidateKeyOutcome(db, form_key) ==
    LET user_key == ValidateNormalise(form_key) IN
    IF user_key = MASTER_KEY THEN "master"
    ELSE IF LoadFails(db) THEN "invalid"
    ELSE IF user_key \in DOMAIN Keys(db) THEN "premium"
    ELSE "invalid"

\* a dashboard that takes any key once the store loads
dashboard_any_key(db, arg_key) ==
    LET user_key == Strip(arg_key) IN
    IF user_key = <<>> THEN "nokey"
    ELSE IF LoadFails(db) THEN "loaderror"
    ELSE "valid"

\* dashboard / dashboard_legacy lines 336-361: "nokey" when the key parameter
\* is empty after strip, "loaderror", "invalid" or "valid"
DashboardKeyOutcome(db, arg_key) ==
    LET user_key == Strip(arg_key) IN
    IF user_key = <<>> THEN "nokey"
    ELSE IF LoadFails(db) THEN "loaderror"
    ELSE IF UpperMatch(Keys(db), user_key) THEN "valid"
    ELSE "invalid"

\* verify lines 240-244: the key of a purchaser; <<>> when split()[-1] raises
\* (customer_details.name or 'user')
DEFAULT_NAME == <<"u", "s", "e", "r">>
IssueKey(name, suffix) ==
    LET customer_name == IF IsNone(name) THEN DEFAULT_NAME ELSE Get(name)
        lastw == LastWord(customer_name)
    IN  IF lastw = <<>> THEN <<>> ELSE Lower(lastw) \o suffix

\* a dump that writes back the map as it was read
keep_db(db, key, rec) == db

\* verify lines 267-269: keys[key] = {...}; json.dump(keys)
StoreKey(db, key, rec) ==
    Some([k \in DOMAIN Keys(db) \cup {key} |-> IF k = key THEN rec ELSE Keys(db)[k]])

----------------------------------------------------------------------------
(* app.py: sessions, the license middleware and the routes *)

Sessions == {"s1", "s2"}
Anonymous == [licensed |-> FALSE]

\* session["license_key"] and session["access_level"] are written by the
\* handlers and read by no code of the application: the model keeps the one
\* session field that is read, and the level a handler writes goes into the
\* record of the request
Grant(sess) == [sess EXCEPT !.licensed = TRUE]

public_endpoints ==
    {"home", "how_it_works", "paywall", "paywall_config", "tool", "verify", "verify_key",
     "validate_key", "create_checkout_session", "healthz", "ping", "static", "logout",
     "dashboard", "dashboard_legacy", "ai_edge_scout", "cron_prewarm"}

\* a path is its sequence of segments: /api/trends/l10 is <<"api","trends","l10">>
\* request.path.startswith("/static"), request.path.startswith("/api/")
UnderStatic(path) == path # <<>> /\ path[1] = "static"
UnderApi(path) == Len(path) >= 2 /\ path[1] = "api"

\* a variant that also lets the introspection and stub routes through
require_license_lax(endpoint, path, sess) ==
    IF endpoint \in public_endpoints \cup {"get_props", "perf_recent"}
       \/ UnderStatic(path) \/ UnderApi(path)
    THEN "pass"
    ELSE IF ~sess.licensed THEN "redirect:paywall" ELSE "pass"

\* require_license (before_request): "pass" lets the route handler run
require_license(endpoint, path, sess) ==
    IF endpoint \in public_endpoints \/ UnderStatic(path) \/ UnderApi(path)
    THEN "pass"
    ELSE IF ~sess.licensed THEN "redirect:paywall" ELSE "pass"

\* the request/response record kept in last
NoRequest ==
    [ep |-> "", path |-> <<>>, sess |-> "", licensedBefore |-> FALSE, keyForm |-> "none",
     token |-> "", resp |-> "", level |-> "", ran |-> FALSE, fetched |-> {}, wrote |-> {},
     body |-> None, league |-> "", date |-> "none"]

\* the Flask session of a client; a client that keeps no cookie (the cron
\* scheduler) arrives with an empty session each time
NO_COOKIE == "no-cookie"
SessionOf(s) == IF s \in Sessions THEN session[s] ELSE Anonymous

Request(ep, path, s) ==
    [NoRequest EXCEPT !.ep = ep, !.path = path, !.sess = s,
                      !.licensedBefore = SessionOf(s).licensed]

\* the middleware's redirect: the route handler does not run
Redirected(ep, path, s) ==
    /\ last' = [Request(ep, path, s) EXCEPT !.resp = "redirect:paywall"]
    /\ UNCHANGED <<session, license_db, slot_cache, CRON_KEY, issued, exceptWeb>>

\* the keys a client presents, each with the way it was derived: no key, a
\* stored key as issued, in upper case, capitalised, or between blanks, the
\* master key, and a key never issued
Capitalised(k) == [i \in 1..Len(k) |-> IF i = 1 THEN UpperChar(k[i]) ELSE k[i]]
STRANGER_KEY == <<"z", "e", "d", "0", "0", "0", "0">>
StoredKeyForms == {"as-issued", "upper", "capitalised", "padded"}
\* the gateway runs present a key as issued or not at all
PlainKeyForms == {"none", "master", "as-issued", "unknown"}

KeysToTry ==
    {<<"none", <<>>>>, <<"master", MASTER_KEY>>, <<"master", Upper(MASTER_KEY)>>,
     <<"unknown", STRANGER_KEY>>}
        \cup UNION {{<<"as-issued", k>>, <<"upper", Upper(k)>>,
                     <<"capitalised", Capitalised(k)>>,
                     <<"padded", <<" ">> \o k \o <<" ">>>>} : k \in DOMAIN Keys(license_db)}

\* ---- routes without state: (endpoint, path, response of the handler)
SimpleRoutes ==
    {<<"home", <<>>, "redirect:how_it_works">>,
     <<"how_it_works", <<"how-it-works">>, "render:how_it_works.html">>,
     <<"paywall", <<"paywall">>, "render:index.html">>,
     <<"paywall_config", <<"config">>, "json:config">>,
     <<"create_checkout_session", <<"create-checkout-session">>, "checkout">>,
     <<"healthz", <<"healthz">>, "json:ok">>,
     <<"ping", <<"ping">>, "json:running">>,
     <<"static", <<"static", "app.css">>, "file">>,
     <<"contextual_hit_rates", <<"contextual", "hit_rates">>, "json:results">>,
     <<"api_trends_l10", <<"api", "trends", "l10">>, "json:results">>,
     <<"perf_recent", <<"_perf", "recent">>, "json:recent">>,
     <<"perf_cache", <<"_perf", "cache">>, "json:cache">>,
     <<"None", <<"no-such-page">>, "404">>}

\* a route behind the license check
PERF_RECENT == <<"perf_recent", <<"_perf", "recent">>, "json:recent">>

\* home, how_it_works, paywall, paywall_config, healthz, ping, the two stubs,
\* the perf routes, static files, checkout creation (no state of the model)
\* and an unrouted URL
SimplePage(s, route) ==
    IF require_license(route[1], route[2], session[s]) # "pass"
    THEN Redirected(route[1], route[2], s)
    ELSE /\ last' = [Request(route[1], route[2], s) EXCEPT !.resp = route[3], !.ran = TRUE]
         /\ UNCHANGED <<session, license_db, slot_cache, CRON_KEY, issued, exceptWeb>>

\* tool lines 132-138
Tool(s) ==
    IF require_license("tool", <<"tool">>, session[s]) # "pass"
    THEN Redirected("tool", <<"tool">>, s)
    ELSE /\ last' = [Request("tool", <<"tool">>, s) EXCEPT
                        !.resp = IF session[s].licensed THEN "redirect:dashboard"
                                 ELSE "redirect:paywall?message",
                        !.ran = TRUE]
         /\ UNCHANGED <<session, license_db, slot_cache, CRON_KEY, issued, exceptWeb>>

\* verify_key lines 278-300
VerifyKey(s, pk) ==
    IF require_license("verify_key", <<"verify-key">>, session[s]) # "pass"
    THEN Redirected("verify_key", <<"verify-key">>, s)
    ELSE /\ last' = [Request("verify_key", <<"verify-key">>, s) EXCEPT
                        !.keyForm = pk[1],
                        !.resp = IF VerifyKeyValid(license_db, pk[2])
                                 THEN "json:valid_true" ELSE "json:valid_false",
                        !.ran = TRUE]
         /\ UNCHANGED <<session, license_db, slot_cache, CRON_KEY, issued, exceptWeb>>

\* validate_key lines 302-329
ValidateKey(s, pk) ==
    IF require_license("validate_key", <<"validate-key">>, session[s]) # "pass"
    THEN Redirected("validate_key", <<"validate-key">>, s)
    ELSE LET outcome == ValidateKeyOutcome(license_db, pk[2]) IN
         /\ session' = IF outcome \in {"master", "premium"}
                       THEN [session EXCEPT ![s] = Grant(@)]
                       ELSE session
         /\ last' = [Request("validate_key", <<"validate-key">>, s) EXCEPT
                        !.keyForm = pk[1],
                        !.resp = IF outcome = "invalid" THEN "json:valid_false"
                                 ELSE "json:valid_true",
                        !.level = IF outcome = "master" THEN "creator"
                                  ELSE IF outcome = "premium" THEN "premium" ELSE "",
                        !.ran = TRUE]
         /\ UNCHANGED <<license_db, slot_cache, CRON_KEY, issued, exceptWeb>>

\* dashboard lines 332-378 and dashboard_legacy lines 380-426 differ in the
\* template only.  url_for('index') names no endpoint of the application: the
\* two redirects of the handler raise BuildError, a 500 response.
DashboardRoute(s, ep, path, template, pk, template_ok) ==
    IF require_license(ep, path, session[s]) # "pass"
    THEN Redirected(ep, path, s)
    ELSE LET outcome == DashboardKeyOutcome(license_db, pk[2]) IN
         /\ session' = IF outcome = "valid" THEN [session EXCEPT ![s] = Grant(@)]
                       ELSE session
         /\ last' = [Request(ep, path, s) EXCEPT
                        !.keyForm = pk[1],
                        !.resp = IF outcome \in {"loaderror", "invalid"} THEN "500"
                                 ELSE IF template_ok THEN template
                                 ELSE "inline:diagnostic",
                        !.ran = TRUE]
         /\ UNCHANGED <<license_db, slot_cache, CRON_KEY, issued, exceptWeb>>

Dashboard(s, pk, template_ok) ==
    DashboardRoute(s, "dashboard", <<"dashboard">>, "render:dashboard.html",
                   pk, template_ok)

DashboardLegacy(s, pk, template_ok) ==
    DashboardRoute(s, "dashboard_legacy", <<"dashboard_legacy">>,
                   "render:dashboard_legacy.html", pk, template_ok)

\* logout lines 688-692: session.clear()
Logout(s) ==
    IF require_license("logout", <<"logout">>, session[s]) # "pass"
    THEN Redirected("logout", <<"logout">>, s)
    ELSE /\ session' = [session EXCEPT ![s] = Anonymous]
         /\ last' = [Request("logout", <<"logout">>, s) EXCEPT !.resp = "redirect:how_it_works",
                                                 !.ran = TRUE]
         /\ UNCHANGED <<license_db, slot_cache, CRON_KEY, issued, exceptWeb>>

----------------------------------------------------------------------------
(* app.py: the props routes over the slot cache *)

Leagues == {"mlb", "nfl", "ncaaf", "ufc"}

\* _norm_league lines 50-64 on the league parameters clients send; "" is the
\* absent parameter (s or "")
LeagueParams == {"", " MLB ", "nfl", "cfb", "mma", "nba"}
StripLowerParam(s) ==
    CASE s = " MLB " -> "mlb"
      [] s = "NBA" -> "nba"
      [] s = "CFB" -> "cfb"
      [] s = " mma " -> "mma"
      [] OTHER -> s

\* a normalisation without the alias table
strip_lower_only(s) == StripLowerParam(s)

_norm_league(s) ==
    LET t == StripLowerParam(s) IN
    CASE t \in {"ncaa", "cfb", "college_football", "ncaaf"} -> "ncaaf"
      [] t = "nfl" -> "nfl"
      [] t = "mlb" -> "mlb"
      [] t \in {"mma", "udc", "ufc"} -> "ufc"
      [] OTHER -> t

\* get_props lines 458-556: the fetcher the if/elif chain selects for a
\* league parameter, None when it ends in the else branch
Dispatch(league_in) ==
    LET league == _norm_league(league_in) IN
    IF league \in Leagues THEN Some(league) ELSE None

\* the date parameter: absent or a day.  Only the NCAAF and UFC branches pass
\* it on, so the other leagues are requested without it.
DateParams == {"none", "2024-09-07"}
DateParamsFor(league_in) ==
    IF _norm_league(league_in) \in {"ncaaf", "ufc"} THEN DateParams ELSE {"none"}

\* what the league fetchers return: the NCAAF and UFC fetchers are given the
\* requested date, the MLB and NFL fetchers are not
FetchProps(league, date_str) ==
    [league |-> league,
     date |-> IF league \in {"ncaaf", "ufc"} THEN date_str ELSE "none"]

\* the slot cache the gateway imports (get_or_set_slot, set_json, slot_key):
\* one entry per league for the current slot
EmptySlots == [l \in Leagues |-> None]
slot_get(cache, league) == cache[league]
set_json(cache, league, props) == [cache EXCEPT ![league] = Some(props)]

\* the TTL of every entry ends at the slot boundary
SlotBoundary ==
    /\ slot_cache # EmptySlots
    /\ slot_cache' = EmptySlots
    /\ last' = NoRequest
    /\ UNCHANGED <<session, license_db, CRON_KEY, issued, exceptWeb>>

\* get_props lines 447-560; fetch_ok is whether the league fetcher returns
GetProps(s, league_in, date_str, nocache, fetch_ok) ==
    LET path == <<"player_props">>
        league == _norm_league(league_in)
        req == [Request("get_props", path, s) EXCEPT !.league = league_in,
                                                     !.date = date_str]
        cached == IF league \in Leagues THEN slot_get(slot_cache, league) ELSE None
        props == FetchProps(league, date_str)
    IN
    IF require_license("get_props", path, session[s]) # "pass"
    THEN Redirected("get_props", path, s)
    ELSE /\ IF league \notin Leagues
            THEN /\ last' = [req EXCEPT !.resp = "503", !.ran = TRUE]
                 /\ UNCHANGED slot_cache
            ELSE IF ~nocache /\ NotNone(cached)
            THEN /\ last' = [req EXCEPT !.resp = "200", !.ran = TRUE, !.body = cached]
                 /\ UNCHANGED slot_cache
            ELSE IF ~fetch_ok
            THEN /\ last' = [req EXCEPT !.resp = "503", !.ran = TRUE,
                                        !.fetched = {league}]
                 /\ UNCHANGED slot_cache
            ELSE /\ slot_cache' = set_json(slot_cache, league, props)
                 /\ last' = [req EXCEPT !.resp = "200", !.ran = TRUE,
                                        !.fetched = {league}, !.wrote = {league},
                                        !.body = Some(props)]
         /\ UNCHANGED <<session, license_db, CRON_KEY, issued, exceptWeb>>

\* ai_edge_scout lines 562-587; env is "import-error" (openai or the scout
\* cannot be imported), "no-api-key" (OpenAI() raises) or "ok"
AiEnvs == {"import-error", "no-api-key", "ok"}
AiLeagueParams == {" MLB ", "nfl"}
AiEdgeScout(s, league_in, env, fetch_ok) ==
    LET path == <<"ai", "edge_scout">>
        req == Request("ai_edge_scout", path, s)
        cached == slot_get(slot_cache, "mlb")
        props == FetchProps("mlb", "none")
    IN
    IF require_license("ai_edge_scout", path, session[s]) # "pass"
    THEN Redirected("ai_edge_scout", path, s)
    ELSE /\ IF env = "import-error"
            THEN /\ last' = [req EXCEPT !.resp = "500", !.ran = TRUE]
                 /\ UNCHANGED slot_cache
            ELSE IF _norm_league(league_in) # "mlb"
            THEN /\ last' = [req EXCEPT !.resp = "400", !.ran = TRUE]
                 /\ UNCHANGED slot_cache
            ELSE IF IsNone(cached) /\ ~fetch_ok
            THEN /\ last' = [req EXCEPT !.resp = "500", !.ran = TRUE, !.fetched = {"mlb"}]
                 /\ UNCHANGED slot_cache
            ELSE /\ slot_cache' = IF IsNone(cached) THEN set_json(slot_cache, "mlb", props)
                                  ELSE slot_cache
                 /\ last' = [req EXCEPT
                                !.resp = IF env = "no-api-key" THEN "503" ELSE "200",
                                !.ran = TRUE,
                                !.fetched = IF IsNone(cached) THEN {"mlb"} ELSE {},
                                !.wrote = IF IsNone(cached) THEN {"mlb"} ELSE {},
                                !.body = IF env = "no-api-key" THEN None
                                         ELSE IF IsNone(cached) THEN Some(props)
                                         ELSE cached]
         /\ UNCHANGED <<session, license_db, CRON_KEY, issued, exceptWeb>>

\* api_ai_scout lines 600-625: the module never imports OpenAI, so with an
\* API key the handler raises NameError; without one it answers 500 itself
ApiLeagueParams == {"", "MLB", "nfl"}
ApiAiScout(s, league_in) ==
    LET path == <<"api", "ai_scout">>
        req == Request("api_ai_scout", path, s)
        league == IF league_in = "" THEN "mlb" ELSE IF league_in = "MLB" THEN "mlb"
                  ELSE league_in
    IN
    IF require_license("api_ai_scout", path, session[s]) # "pass"
    THEN Redirected("api_ai_scout", path, s)
    ELSE /\ last' = [req EXCEPT !.resp = "500", !.ran = TRUE,
                                !.fetched = IF league = "mlb" THEN {"mlb"} ELSE {}]
         /\ UNCHANGED <<session, license_db, slot_cache, CRON_KEY, issued, exceptWeb>>

----------------------------------------------------------------------------
(* app.py: the pre-warm cron route *)

\* os.getenv("CRON_KEY"): unset or the configured secret
CronKeys == {None, Some("s3cret")}
\* request.args.get("key"): absent, the secret, or another string
Tokens == {None, Some("s3cret"), Some("wrong")}

\* the leagues parameter split at the commas; the first is the default of an
\* absent parameter
LeagueLists ==
    {<<"mlb", "nfl", "ncaaf", "ufc">>, <<" nfl", "mlb", "">>, <<"nba", "ufc">>}
StripItem(l) == IF l = " nfl" THEN "nfl" ELSE l
RECURSIVE StripItems(_)
StripItems(items) ==
    IF items = <<>> THEN <<>>
    ELSE IF StripItem(Head(items)) = "" THEN StripItems(Tail(items))
    ELSE <<StripItem(Head(items))>> \o StripItems(Tail(items))

\* the leagues whose fetcher raises during one run
Failures == {{}, {"mlb"}, {"nfl"}, {"ncaaf", "ufc"}}

\* the loop of lines 646-683 over the remaining leagues.  The MLB fetch is
\* outside any try: its exception ends the handler.  The cron fetchers take
\* no date.
RECURSIVE CronLoop(_, _, _)
CronLoop(leagues, failing, st) ==
    IF leagues = <<>> \/ st.crashed THEN st
    ELSE LET L == Head(leagues)
             rest == Tail(leagues)
             tried == [st EXCEPT !.fetched = @ \cup {L}]
             stored == [tried EXCEPT !.cache = set_json(@, L, FetchProps(L, "none")),
                                     !.wrote = @ \cup {L}]
         IN  IF L \notin Leagues
             THEN CronLoop(rest, failing, [st EXCEPT !.skipped = @ \cup {L}])
             ELSE IF L \in failing
             THEN IF L = "mlb" THEN [tried EXCEPT !.crashed = TRUE]
                  ELSE CronLoop(rest, failing, [tried EXCEPT !.errors = @ \cup {L}])
             ELSE CronLoop(rest, failing, stored)

\* cron_prewarm lines 638-686
CronPrewarm(token, leagues_param, failing) ==
    LET path == <<"_cron", "prewarm">>
        req == [Request("cron_prewarm", path, NO_COOKIE) EXCEPT
                   !.token = IF IsNone(token) THEN "absent" ELSE Get(token)]
        st == CronLoop(StripItems(leagues_param), failing,
                       [cache |-> slot_cache, fetched |-> {}, wrote |-> {},
                        errors |-> {}, skipped |-> {}, crashed |-> FALSE])
    IN
    IF require_license("cron_prewarm", path, SessionOf(NO_COOKIE)) # "pass"
    THEN Redirected("cron_prewarm", path, NO_COOKIE)
    ELSE /\ IF token # CRON_KEY
            THEN /\ last' = [req EXCEPT !.resp = "401", !.ran = TRUE]
                 /\ UNCHANGED slot_cache
            ELSE /\ slot_cache' = st.cache
                 /\ last' = [req EXCEPT !.resp = IF st.crashed THEN "500" ELSE "200",
                                        !.ran = TRUE, !.fetched = st.fetched,
                                        !.wrote = st.wrote]
         /\ UNCHANGED <<session, license_db, CRON_KEY, issued, exceptWeb>>

----------------------------------------------------------------------------
(* app.py: post-purchase verification *)

\* what Stripe returns for a checkout session: the customer's name (or none)
\* and e-mail, and whether the line item is the Mora Assist price
JANE_DOE == <<"J", "a", "n", "e", " ", "D", "o", "e">>
JOHN_DOE == <<"J", "o", "h", "n", " ", "D", "o", "e">>
ECE_KIR == <<"E", "c", "e", " ", "K", DOTLESS_I, "r">>
BLANK_NAME == <<" ", " ">>
Checkouts ==
    {[name |-> Some(JANE_DOE), email |-> "jane@example.com", mora_assist |-> FALSE],
     [name |-> Some(JOHN_DOE), email |-> "john@example.com", mora_assist |-> FALSE],
     [name |-> Some(ECE_KIR), email |-> "ece@example.com", mora_assist |-> FALSE],
     [name |-> None, email |-> "unknown@example.com", mora_assist |-> FALSE],
     [name |-> Some(BLANK_NAME), email |-> "blank@example.com", mora_assist |-> FALSE],
     [name |-> Some(JANE_DOE), email |-> "jane@example.com", mora_assist |-> TRUE]}

\* str(uuid.uuid4().int)[-4:]
Suffixes == {<<"0", "4", "1", "7">>, <<"9", "0", "0", "0">>}

\* the number of keys the runs issue
MaxIssued == 2

\* how the request reaches the handler: with a key to display, without a
\* session id, with a session id Stripe rejects, or with a paid session
VerifyKinds == {"show-key", "no-session-id", "stripe-error", "paid"}

\* the requests to /verify: only a paid session has a checkout and draws a
\* suffix
NO_CHECKOUT == [name |-> None, email |-> "", mora_assist |-> FALSE]
VerifyRequests ==
    {<<kind, NO_CHECKOUT, <<>>>> : kind \in VerifyKinds \ {"paid"}}
        \cup {<<"paid", c, suffix>> : c \in Checkouts, suffix \in Suffixes}

\* verify lines 224-276
Verify(s, kind, checkout, suffix) ==
    LET path == <<"verify">>
        req == Request("verify", path, s)
        key == IssueKey(checkout.name, suffix)
        rec == [email |-> checkout.email, plan |-> "subscription"]
    IN
    IF require_license("verify", path, session[s]) # "pass"
    THEN Redirected("verify", path, s)
    ELSE /\ IF kind = "show-key"
            THEN /\ last' = [req EXCEPT !.resp = "render:verify.html:key", !.ran = TRUE]
                 /\ UNCHANGED <<license_db, issued>>
            ELSE IF kind \in {"no-session-id", "stripe-error"} \/ key = <<>>
            THEN /\ last' = [req EXCEPT !.resp = "render:verify.html:error", !.ran = TRUE]
                 /\ UNCHANGED <<license_db, issued>>
            ELSE IF checkout.mora_assist
            THEN /\ last' = [req EXCEPT !.resp = "render:verify.html:mora_assist",
                                        !.ran = TRUE]
                 /\ UNCHANGED <<license_db, issued>>
            ELSE /\ Cardinality(issued) < MaxIssued
                 /\ license_db' = StoreKey(license_db, key, rec)
                 /\ issued' = issued \cup {<<key, rec>>}
                 /\ last' = [req EXCEPT !.resp = "render:verify.html:key", !.ran = TRUE,
                                        !.keyForm = "issued"]
         /\ UNCHANGED <<session, slot_cache, CRON_KEY, exceptWeb>>

----------------------------------------------------------------------------
(* pairing.py: build_props_novig on the offers of one                      *)
(* (event, matchup, player, stat, line) group                              *)

DEFAULT_BOOKS == <<"draftkings", "fanduel", "betmgm">>

\* str.lower on the book and side strings the offers carry
LowerWord(w) ==
    CASE w = "FanDuel" -> "fanduel"
      [] w = "Under" -> "under"
      [] OTHER -> w

\* ALLOWED_MARKETS["mlb"], lines in tenths
ALLOWED_MARKETS ==
    [batter_hits |-> <<5, 35>>, batter_home_runs |-> <<5, 15>>,
     batter_total_bases |-> <<5, 35>>, pitcher_strikeouts |-> <<15, 125>>,
     rbis |-> <<5, 25>>, runs |-> <<5, 25>>]

\* the range test of line 31 alone, without the total-bases filter
market_ok_range_only(stat, line) ==
    IF stat \notin DOMAIN ALLOWED_MARKETS THEN FALSE
    ELSE ALLOWED_MARKETS[stat][1] <= line /\ line <= ALLOWED_MARKETS[stat][2]

\* _market_ok lines 21-31 for league "mlb"
_market_ok(stat, line) ==
    IF stat \notin DOMAIN ALLOWED_MARKETS THEN FALSE
    ELSE IF stat = "batter_total_bases" /\ line > 15 THEN FALSE
    ELSE ALLOWED_MARKETS[stat][1] <= line /\ line <= ALLOWED_MARKETS[stat][2]

InSeq(x, seq) == \E i \in 1..Len(seq) : seq[i] = x

\* lines 58-68: the offers of the group folded into by_prop[k], a dict of
\* dicts in insertion order: order lists the books as they were first
\* stored, sides holds each book's prices
NoSides == [over |-> None, under |-> None]
EmptyBookmap == [order |-> <<>>, sides |-> [b \in {} |-> NoSides]]

StoreOffer(bookmap, book, side, odds) ==
    LET known == book \in DOMAIN bookmap.sides
        old == IF known THEN bookmap.sides[book] ELSE NoSides
        new == [old EXCEPT ![side] = Some(odds)]
    IN  [order |-> IF known THEN bookmap.order ELSE Append(bookmap.order, book),
         sides |-> [b \in DOMAIN bookmap.sides \cup {book} |->
                       IF b = book THEN new ELSE bookmap.sides[b]]]

RECURSIVE Aggregate(_, _, _)
Aggregate(raw_offers, books, bookmap) ==
    IF raw_offers = <<>> THEN bookmap
    ELSE LET o == Head(raw_offers)
             book == LowerWord(o.book)
             side == LowerWord(o.side)
         IN  IF ~InSeq(book, books) THEN Aggregate(Tail(raw_offers), books, bookmap)
             ELSE IF ~_market_ok(o.stat, o.line)
             THEN Aggregate(Tail(raw_offers), books, bookmap)
             ELSE IF side \in {"over", "under"} /\ NotNone(o.odds)
             THEN Aggregate(Tail(raw_offers), books,
                            StoreOffer(bookmap, book, side, Get(o.odds)))
             ELSE Aggregate(Tail(raw_offers), books, bookmap)

\* |p - 0.5|
HalfDistance(p) == Frac(Abs(2 * p[1] - p[2]), 2 * p[2])
FracMax(p, q) == IF FracLess(p, q) THEN q ELSE p
HIGH_THRESHOLD == <<7, 10>>

\* _decorate lines 87-108: the source tag and the flags (priority_score,
\* which nothing in the builder reads, is left out)
_decorate(cand, source) ==
    LET p_over == cand.fair.prob.over
        p_under == cand.fair.prob.under
    IN  [cand EXCEPT
            !.source = source,
            !.flags = (IF ~FracLess(p_over, HIGH_THRESHOLD) THEN {"HIGH_OVER_70"} ELSE {})
                        \cup (IF ~FracLess(FracMax(p_over, p_under), HIGH_THRESHOLD)
                              THEN {"HIGH_ANY_70"} ELSE {})]

Candidate(odds, shop, book, p_over, p_under) ==
    [odds |-> odds, shop |-> shop,
     fair |-> [book |-> book, prob |-> [over |-> p_over, under |-> p_under]],
     source |-> "", flags |-> {}]

\* best / best_score of the loop body: best is None or a candidate, a score
\* of -1.0 is below every score
NoBest == [best |-> None, score |-> None]
Better(acc, cand, score) ==
    IF IsNone(acc.score) \/ FracLess(Get(acc.score), score)
    THEN [best |-> Some(cand), score |-> Some(score)]
    ELSE acc

\* lines 114-127: within-book pairing over the books in order
RECURSIVE WithinBook(_, _, _)
WithinBook(order, sides, acc) ==
    IF order = <<>> THEN acc
    ELSE LET b == Head(order)
             q == sides[b]
             pp == no_vig_two_way(q.over, q.under)
         IN  IF IsNone(q.over) \/ IsNone(q.under) \/ IsNone(pp[1])
             THEN WithinBook(Tail(order), sides, acc)
             ELSE WithinBook(Tail(order), sides,
                     Better(acc,
                            _decorate(Candidate(Get(q.over), <<b>>, b, Get(pp[1]), Get(pp[2])),
                                      "novig"),
                            HalfDistance(Get(pp[1]))))

\* american_to_prob(x) or 0.0
ProbOrZero(odds) ==
    LET pr == american_to_prob(Some(odds)) IN IF IsNone(pr) THEN FracZero ELSE Get(pr)

\* the pairs (bO, bU) of lines 132-135 in loop order
CrossPairs(order, sides) ==
    LET overs == SelectSeq(order, LAMBDA b : NotNone(sides[b].over))
        unders == SelectSeq(order, LAMBDA b : NotNone(sides[b].under))
    IN  [i \in 1..(Len(overs) * Len(unders)) |->
            <<overs[((i - 1) \div Len(unders)) + 1], unders[((i - 1) % Len(unders)) + 1]>>]

\* lines 134-150: cross-book pairing; the prices of the model have no
\* 4-decimal ties
RECURSIVE CrossBook(_, _, _)
CrossBook(pairs, sides, acc) ==
    IF pairs = <<>> THEN acc
    ELSE LET bO == Head(pairs)[1]
             bU == Head(pairs)[2]
             oOdds == Get(sides[bO].over)
             pO == ProbOrZero(oOdds)
             pU == ProbOrZero(Get(sides[bU].under))
             sum == FracAdd(pO, pU)
         IN  IF sum[1] <= 0 THEN CrossBook(Tail(pairs), sides, acc)
             ELSE LET p_over == Frac(Round4(FracDiv(pO, sum), TRUE), 10000)
                      p_under == Frac(Round4(FracDiv(pU, sum), TRUE), 10000)
                  IN  CrossBook(Tail(pairs), sides,
                         Better(acc,
                                _decorate(Candidate(oOdds, <<bO, bU>>, "crossbook",
                                                    p_over, p_under), "crossbook"),
                                HalfDistance(p_over)))

\* default_overround 0.04: a book with a one-sided quote in the group has no
\* fully paired line in it
DEFAULT_OVERROUND == <<1, 25>>

\* max(0.01, min(0.99, round(p / (1.0 + r), 4))) in 1/10000 units
Shrunk(pr, r) == Max(100, Min(9900, Round4(FracDiv(pr, FracAdd(FracOne, r)), TRUE)))

\* lines 153-179: the first book in order with exactly one side
RECURSIVE SingleSide(_, _)
SingleSide(order, sides) ==
    IF order = <<>> THEN None
    ELSE LET b == Head(order)
             q == sides[b]
         IN  IF NotNone(q.over) /\ IsNone(q.under)
             THEN LET p_over == Shrunk(ProbOrZero(Get(q.over)), DEFAULT_OVERROUND) IN
                  Some(_decorate(Candidate(Get(q.over), <<b>>, "single_side",
                                           Frac(p_over, 10000), Frac(10000 - p_over, 10000)),
                                 "single_side"))
             ELSE IF NotNone(q.under) /\ IsNone(q.over)
             THEN LET p_under == Shrunk(ProbOrZero(Get(q.under)), DEFAULT_OVERROUND) IN
                  Some(_decorate(Candidate(Get(q.under), <<b>>, "single_side",
                                           Frac(10000 - p_under, 10000), Frac(p_under, 10000)),
                                 "single_side"))
             ELSE SingleSide(Tail(order), sides)

\* a variant that ranks the candidates of the three strategies together
best_of_all_strategies(bookmap, allow_crossbook, allow_single_side_fallback) ==
    LET within == WithinBook(bookmap.order, bookmap.sides, NoBest)
        cross == CrossBook(CrossPairs(bookmap.order, bookmap.sides), bookmap.sides, within)
        single == SingleSide(bookmap.order, bookmap.sides)
    IN  IF NotNone(single)
           /\ (IsNone(cross.score)
               \/ FracLess(Get(cross.score), HalfDistance(Get(single).fair.prob.over)))
        THEN single
        ELSE cross.best

\* lines 110-182 for one group: the kept row, or None
best_of_group(bookmap, allow_crossbook, allow_single_side_fallback) ==
    LET within == WithinBook(bookmap.order, bookmap.sides, NoBest).best
        cross == IF IsNone(within) /\ allow_crossbook
                 THEN CrossBook(CrossPairs(bookmap.order, bookmap.sides),
                                bookmap.sides, NoBest).best
                 ELSE within
    IN  IF IsNone(cross) /\ allow_single_side_fallback
        THEN SingleSide(bookmap.order, bookmap.sides)
        ELSE cross

\* build_props_novig lines 33-196 on the offers of one group: the bookmap the
\* offers fold into and the row kept for the group
build_props_novig(raw_offers, allow_crossbook, allow_single_side_fallback) ==
    LET bookmap == Aggregate(raw_offers, DEFAULT_BOOKS, EmptyBookmap) IN
    [bookmap |-> bookmap,
     best |-> IF bookmap.order = <<>> THEN None
              ELSE best_of_group(bookmap, allow_crossbook, allow_single_side_fallback)]

\* ---- the offers drawn for build_props_novig
\* a quote is absent (None), or present with a price that may itself be
\* missing: Some(None), Some(Some(-110))
Priced == {Some(Some(0)), Some(Some(-110)), Some(Some(-400))}
Quotes ==
    [dk_over : {None, Some(None)} \cup Priced, dk_under : {None} \cup Priced,
     fd_over : {None} \cup Priced, fd_under : {None} \cup Priced,
     cz_over : {None, Some(Some(-400))}, cz_under : {None, Some(Some(-400))}]

\* the order in which the feed lists the quotes: (book, side, quote)
OfferOrders ==
    {<<<<"draftkings", "over", "dk_over">>, <<"draftkings", "Under", "dk_under">>,
       <<"FanDuel", "over", "fd_over">>, <<"FanDuel", "Under", "fd_under">>,
       <<"caesars", "over", "cz_over">>, <<"caesars", "Under", "cz_under">>>>,
     <<<<"FanDuel", "Under", "fd_under">>, <<"caesars", "over", "cz_over">>,
       <<"draftkings", "over", "dk_over">>, <<"FanDuel", "over", "fd_over">>,
       <<"caesars", "Under", "cz_under">>, <<"draftkings", "Under", "dk_under">>>>}

\* the (stat, line) of the group: hits over 0.5, total bases over 1.5, or
\* total bases over 2.5
PairingMarkets ==
    {<<"batter_hits", 5>>, <<"batter_total_bases", 15>>, <<"batter_total_bases", 25>>}

OffersOf(quotes, order, market) ==
    LET present == SelectSeq(order, LAMBDA e : NotNone(quotes[e[3]])) IN
    [i \in 1..Len(present) |->
        [book |-> present[i][1], side |-> present[i][2],
         odds |-> Get(quotes[present[i][3]]), stat |-> market[1], line |-> market[2]]]

PairingCalls ==
    {[fn |-> "build_props_novig",
      arg |-> [raw_offers |-> OffersOf(q, ord, mk), allow_crossbook |-> f[1],
               allow_single_side_fallback |-> f[2]],
      done |-> FALSE, out |-> None] :
        q \in Quotes, ord \in OfferOrders, mk \in PairingMarkets,
        f \in {<<TRUE, TRUE>>, <<FALSE, TRUE>>, <<TRUE, FALSE>>}}

BuildPropsNovig ==
    /\ libCall.fn = "build_props_novig" /\ ~libCall.done
    /\ libCall' = [libCall EXCEPT
                      !.done = TRUE,
                      !.out = Some(build_props_novig(libCall.arg.raw_offers,
                                                     libCall.arg.allow_crossbook,
                                                     libCall.arg.allow_single_side_fallback))]
    /\ UNCHANGED exceptLib

----------------------------------------------------------------------------
(* ai_scout.py *)

\* a signed fraction n/d (d > 0) in lowest terms
Ratio(n, d) == LET g == GCD(Abs(n), d) IN <<n \div g, d \div g>>

\* american_profit: odds / 100 for odds >= 0, 100 / abs(odds) otherwise
american_profit(odds) == IF odds >= 0 THEN Ratio(odds, 100) ELSE Ratio(100, Abs(odds))

\* ev_per_unit: p * american_profit(odds) - (1 - p)
ev_per_unit(p, odds) ==
    LET g == american_profit(odds) IN
    Ratio(p[1] * g[1] - (p[2] - p[1]) * g[2], p[2] * g[2])

\* sorted(seq, key = Key, reverse = True): descending, equal keys keep
\* their order
SortedDesc(seq, Key(_)) ==
    LET n == Len(seq)
        pos(i) == 1 + Cardinality({j \in 1..n :
                        \/ FracLess(Key(seq[i]), Key(seq[j]))
                        \/ j < i /\ Key(seq[j]) = Key(seq[i])})
    IN  [k \in 1..n |-> seq[CHOOSE i \in 1..n : pos(i) = k]]

EvKey(d) == Get(d.ev)

\* int(p["best_odds"]) and float(p["prob"]) succeed
Computable(p) == NotNone(p.best_odds) /\ NotNone(p.prob)
PickEv(p) == ev_per_unit(Get(p.prob), Get(p.best_odds))

\* a gate that lets break-even picks through
GateLenient(ev) == ~FracLess(ev, FracZero)

\* the test of line 163: ev > 0.0
Gate(ev) == FracLess(FracZero, ev)

\* merge_and_gate: the picks with ev > 0 get their "ev" key set (in the
\* caller's objects) and are returned sorted by it
merge_and_gate(picks) ==
    LET kept(p) == Computable(p) /\ Gate(PickEv(p))
        marked == [i \in 1..Len(picks) |->
                     IF kept(picks[i]) THEN [picks[i] EXCEPT !.ev = Some(PickEv(picks[i]))]
                     ELSE picks[i]]
    IN  [picks |-> marked,
         out |-> SortedDesc(SelectSeq(marked, kept), EvKey)]

\* ---- the LLM answers drawn for merge_and_gate
Pick(player, odds, prob, ev) ==
    [player |-> player, best_odds |-> odds, prob |-> prob, ev |-> ev]

\* +150 at 1/2 twice (EV 1/4), -110 at 3/5 with and without a made-up "ev",
\* -110 at 1/2 (negative) with a made-up "ev", price 0, +150 at 2/5 (EV
\* exactly 0), a pick without price, a pick without probability
PickPool ==
    {Pick("judge", Some(150), Some(<<1, 2>>), None),
     Pick("soto", Some(150), Some(<<1, 2>>), None),
     Pick("ohtani", Some(-110), Some(<<3, 5>>), None),
     Pick("betts", Some(-110), Some(<<3, 5>>), Some(<<9, 1>>)),
     Pick("trout", Some(-110), Some(<<1, 2>>), Some(<<9, 1>>)),
     Pick("alonso", Some(0), Some(<<3, 5>>), None),
     Pick("freeman", Some(150), Some(<<2, 5>>), None),
     Pick("harper", None, Some(<<3, 5>>), None),
     Pick("lindor", Some(150), None, None)}

MaxPicks == 3
PickLists == UNION {[1..n -> PickPool] : n \in 0..MaxPicks}

MergeCalls ==
    {[fn |-> "merge_and_gate", arg |-> [given |-> ps, llm_json |-> ps],
      done |-> FALSE, out |-> None] : ps \in PickLists}

\* one call of merge_and_gate on the caller's object; a second call passes
\* the same, already processed, object
MergeAndGate ==
    /\ libCall.fn = "merge_and_gate"
    /\ IF IsNone(libCall.out) THEN TRUE ELSE Len(Get(libCall.out)) < 2
    /\ LET r == merge_and_gate(libCall.arg.llm_json)
           before == IF IsNone(libCall.out) THEN <<>> ELSE Get(libCall.out)
       IN  libCall' = [libCall EXCEPT !.arg.llm_json = r.picks,
                                      !.done = TRUE,
                                      !.out = Some(Append(before, r.out))]
    /\ UNCHANGED exceptLib

\* ---- build_llm_payload

\* str.strip on the player names of the rows
StripWord(w) == IF w = " soto " THEN "soto" ELSE w

\* one side of a row as an option (lines 43-56), with its EV (line 62)
Option(stat, side, line, quote, prob) ==
    [market |-> stat, side |-> side, line |-> line,
     best_book |-> quote.book, best_odds |-> quote.american, prob |-> prob,
     ev |-> Some(ev_per_unit(prob, quote.american))]

OptsOf(r) ==
    (IF NotNone(r.shop.over)
        THEN <<Option(r.stat, "over", r.line, Get(r.shop.over), r.fair.prob.over)>>
        ELSE <<>>)
    \o (IF NotNone(r.shop.under)
        THEN <<Option(r.stat, "under", r.line, Get(r.shop.under), r.fair.prob.under)>>
        ELSE <<>>)

\* max(seq, key = ev): the first element of greatest ev
MaxByEv(seq) ==
    seq[CHOOSE i \in 1..Len(seq) :
            \A j \in 1..Len(seq) :
                /\ j < i => FracLess(EvKey(seq[j]), EvKey(seq[i]))
                /\ j > i => ~FracLess(EvKey(seq[i]), EvKey(seq[j]))]

\* by_player: players in insertion order, each with its available_markets
\* (keys in insertion order)
NoPlayers == [order |-> <<>>, recs |-> [p \in {} |-> {}]]
NoMarkets == [order |-> <<>>, at |-> [k \in {} |-> {}]]

\* lines 28-68 for one row
AddRow(by_player, r) ==
    LET player == StripWord(r.player)
        opts == OptsOf(r)
    IN  IF player = "" \/ r.stat = "" \/ opts = <<>> THEN by_player
        ELSE LET key == <<r.stat, r.line>>
                 known == player \in DOMAIN by_player.recs
                 rec == IF known THEN by_player.recs[player] ELSE NoMarkets
                 has == key \in DOMAIN rec.at
                 best == MaxByEv(IF has THEN <<rec.at[key]>> \o opts ELSE opts)
                 rec2 == [order |-> IF has THEN rec.order ELSE Append(rec.order, key),
                          at |-> [k \in DOMAIN rec.at \cup {key} |->
                                     IF k = key THEN best ELSE rec.at[k]]]
             IN  [order |-> IF known THEN by_player.order ELSE Append(by_player.order, player),
                  recs |-> [p \in DOMAIN by_player.recs \cup {player} |->
                               IF p = player THEN rec2 ELSE by_player.recs[p]]]

RECURSIVE AddRows(_, _)
AddRows(by_player, rows) ==
    IF rows = <<>> THEN by_player
    ELSE AddRows(AddRow(by_player, Head(rows)), Tail(rows))

FirstN(seq, n) == SubSeq(seq, 1, Min(n, Len(seq)))
MaxEvKey(rec) == Get(rec.max_ev)

\* build_llm_payload: the players of the payload; trended are the players
\* trends_by_player_names has a trend for
build_llm_payload(rows, top_k, trended) ==
    LET by_player == AddRows(NoPlayers, rows)
        rec(p) ==
            LET av == by_player.recs[p]
                markets == FirstN(SortedDesc([i \in 1..Len(av.order) |-> av.at[av.order[i]]], EvKey), 6)
            IN  [player |-> p, markets |-> markets, max_ev |-> markets[1].ev,
                 trends |-> p \in trended]
        flat == [i \in 1..Len(by_player.order) |-> rec(by_player.order[i])]
    IN  FirstN(SortedDesc(flat, MaxEvKey), top_k)

\* ---- the rows drawn for build_llm_payload
UNRESOLVED == [over |-> FracZero, under |-> FracZero]
FairProbs == {UNRESOLVED, [over |-> <<1, 2>>, under |-> <<1, 2>>], [over |-> <<3, 5>>, under |-> <<2, 5>>]}
OverQuotes == {None, Some([american |-> 150, book |-> "fanduel"]), Some([american |-> -110, book |-> "fanduel"])}
UnderQuotes == {None, Some([american |-> -110, book |-> "draftkings"])}

PayloadRows ==
    {[player |-> pl, stat |-> "batter_hits", line |-> ln, shop |-> [over |-> o, under |-> u],
      fair |-> [prob |-> f]] :
        pl \in {"judge", " soto ", ""}, ln \in {5, 15}, o \in OverQuotes, u \in UnderQuotes,
        f \in FairProbs}

PayloadCalls ==
    {[fn |-> "build_llm_payload",
      arg |-> [rows |-> <<r1>> \o rest, top_k |-> k, trended |-> t],
      done |-> FALSE, out |-> None] :
        r1 \in PayloadRows, rest \in {<<>>} \cup {<<r2>> : r2 \in PayloadRows},
        k \in {1, 30}, t \in {{}, {"judge"}}}

BuildLlmPayload ==
    /\ libCall.fn = "build_llm_payload" /\ ~libCall.done
    /\ libCall' = [libCall EXCEPT
                      !.done = TRUE,
                      !.out = Some(build_llm_payload(libCall.arg.rows, libCall.arg.top_k,
                                                     libCall.arg.trended))]
    /\ UNCHANGED exceptLib

----------------------------------------------------------------------------
(* probability.py on bad numeric input *)

\* a Python value handed to an odds-math function: None, the string "abc",
\* or a number
PyNone == [kind |-> "none", n |-> 0]
PyStr == [kind |-> "str", n |-> 0]
PyNum(n) == [kind |-> "num", n |-> n]
PyInputs == {PyNone, PyStr, PyNum(0), PyNum(1), PyNum(-110), PyNum(150)}

\* the exception float(x) raises, "" if none
FloatError(x) ==
    CASE x.kind = "none" -> "TypeError"
      [] x.kind = "str" -> "ValueError"
      [] OTHER -> ""
\* the exception x > 0, 0 <= x <= 1 or abs(x) raises, "" if none
NumberError(x) == IF x.kind = "num" THEN "" ELSE "TypeError"

Raised(e) == [raised |-> e, value |-> ""]
Returned(v) == [raised |-> "", value |-> v]

\* lines 145-150
american_to_prob_on(x) ==
    IF x.kind = "none" THEN Returned("None")
    ELSE IF FloatError(x) # "" THEN Raised(FloatError(x))
    ELSE Returned(IF x.n = 0 THEN "0.0" ELSE "number")

\* lines 152-161
no_vig_two_way_on(x, y) ==
    LET pa == american_to_prob_on(x)
        pb == american_to_prob_on(y)
    IN  IF pa.raised # "" THEN pa
        ELSE IF pb.raised # "" THEN pb
        ELSE IF pa.value \in {"None", "0.0"} \/ pb.value \in {"None", "0.0"}
        THEN Returned("(None, None)")
        ELSE Returned("pair")

\* lines 103-106: 100.0 / abs(v) divides by zero for v = 0
american_to_decimal_on(x) ==
    IF FloatError(x) # "" THEN Raised(FloatError(x))
    ELSE IF x.n = 0 THEN Raised("ZeroDivisionError")
    ELSE Returned("number")

\* lines 108-111
american_to_implied_on(x) ==
    IF FloatError(x) # "" THEN Raised(FloatError(x))
    ELSE Returned(IF x.n = 0 THEN "0.0" ELSE "number")

\* lines 137-143
fair_odds_from_prob_on(x) ==
    IF FloatError(x) # "" THEN Raised(FloatError(x))
    ELSE Returned(IF x.n <= 0 \/ x.n >= 1 THEN "0" ELSE "number")

\* lines 6-15: only ValueError and ZeroDivisionError are caught
implied_probability_on(x) ==
    IF NumberError(x) # "" THEN Raised(NumberError(x))
    ELSE Returned(IF x.n = 0 THEN "0.0" ELSE "number")

InUnit(x) == 0 <= x.n /\ x.n <= 1

\* lines 17-34: every exception becomes an error dict
calculate_edge_on(true_prob, book_odds) ==
    IF \/ NumberError(true_prob) # ""
       \/ ~InUnit(true_prob)
       \/ implied_probability_on(book_odds).raised # ""
    THEN Returned("error dict")
    ELSE Returned("dict")

\* lines 36-65 with a bankroll of 100: every exception becomes 0.0
kelly_bet_size_on(prob, odds) ==
    IF \/ NumberError(prob) # ""
       \/ ~InUnit(prob)
       \/ NumberError(odds) # ""
       \/ odds.n = 0
    THEN Returned("0.0")
    ELSE Returned("number")

\* lines 67-101 on a one-leg parlay [prob] (None instead of the list when
\* prob is None): every exception becomes an error dict
calculate_parlay_edge_on(prob, book_odds) ==
    IF \/ prob.kind = "none"
       \/ NumberError(prob) # ""
       \/ ~InUnit(prob)
       \/ NumberError(book_odds) # ""
       \/ book_odds.n = 0
    THEN Returned("error dict")
    ELSE Returned("dict")

OddsMathFns ==
    {"american_to_prob", "no_vig_two_way", "american_to_decimal", "american_to_implied",
     "fair_odds_from_prob", "implied_probability", "kelly_bet_size", "calculate_edge",
     "calculate_parlay_edge"}

\* the call fn(x) or fn(x, y)
OddsMathOn(fn, x, y) ==
    CASE fn = "american_to_prob" -> american_to_prob_on(x)
      [] fn = "no_vig_two_way" -> no_vig_two_way_on(x, y)
      [] fn = "american_to_decimal" -> american_to_decimal_on(x)
      [] fn = "american_to_implied" -> american_to_implied_on(x)
      [] fn = "fair_odds_from_prob" -> fair_odds_from_prob_on(x)
      [] fn = "implied_probability" -> implied_probability_on(x)
      [] fn = "kelly_bet_size" -> kelly_bet_size_on(x, y)
      [] fn = "calculate_edge" -> calculate_edge_on(x, y)
      [] fn = "calculate_parlay_edge" -> calculate_parlay_edge_on(x, y)

OddsMathCalls ==
    {[fn |-> f, arg |-> <<x, y>>, done |-> FALSE, out |-> None] :
        f \in OddsMathFns, x \in PyInputs, y \in PyInputs}

OddsMath ==
    /\ libCall.fn \in OddsMathFns /\ ~libCall.done
    /\ libCall' = [libCall EXCEPT
                      !.done = TRUE,
                      !.out = Some(OddsMathOn(libCall.fn, libCall.arg[1], libCall.arg[2]))]
    /\ UNCHANGED exceptLib

\* ---- _norm_league of app.py on drawn league names
LeagueNames ==
    {"", "ncaa", "cfb", "college_football", "ncaaf", "nfl", "mlb", "mma", "udc", "ufc",
     "nba", " MLB ", "NBA", "CFB", " mma "}

NormLeagueCalls ==
    {[fn |-> "_norm_league", arg |-> name, done |-> FALSE, out |-> None] : name \in LeagueNames}

\* _norm_league(name), _norm_league of the result, and the fetcher get_props
\* selects for name
NormLeague ==
    /\ libCall.fn = "_norm_league" /\ ~libCall.done
    /\ libCall' = [libCall EXCEPT
                      !.done = TRUE,
                      !.out = Some([once |-> _norm_league(libCall.arg),
                                    twice |-> _norm_league(_norm_league(libCall.arg)),
                                    fetcher |-> Dispatch(libCall.arg)])]
    /\ UNCHANGED exceptLib

----------------------------------------------------------------------------
(* odds_api.py: _pair_outcomes over the outcomes of the bookmakers' markets *)

\* str.strip().lower() on the names the feed carries
StripLowerName(s) ==
    CASE s = "Over" -> "over"
      [] s = "Under" -> "under"
      [] s = "Aaron Judge" -> "aaron judge"
      [] s = "Aaron Judge Over" -> "aaron judge over"
      [] s = " FanDuel " -> "fanduel"
      [] s = "DraftKings" -> "draftkings"
      [] OTHER -> s
StripName(s) == IF s = " FanDuel " THEN "FanDuel" ELSE s
\* "over" in s, "under" in s for the lower-cased names
HasOver(s) == s \in {"over", "aaron judge over"}
HasUnder(s) == s = "under"

\* _resolve_side_and_player lines 95-105: <<side, player>>, None for no side
_resolve_side_and_player(name, desc) ==
    LET n == StripName(name)
        d == StripName(desc)
        ln == StripLowerName(name)
        ld == StripLowerName(desc)
        dn == IF d # "" THEN d ELSE n
        nd == IF n # "" THEN n ELSE d
    IN  IF ln \in {"over", "under"} THEN <<Some(ln), dn>>
        ELSE IF ld \in {"over", "under"} THEN <<Some(ld), nd>>
        ELSE IF HasOver(ln) THEN <<Some("over"), dn>>
        ELSE IF HasUnder(ln) THEN <<Some("under"), dn>>
        ELSE IF HasOver(ld) THEN <<Some("over"), nd>>
        ELSE IF HasUnder(ld) THEN <<Some("under"), nd>>
        ELSE <<None, "">>

\* _norm_point lines 85-93: the point quantized to three decimals
_norm_point(val) ==
    CASE val = "0.5" -> "0.500"
      [] val = "0.50" -> "0.500"
      [] val = "1.5" -> "1.500"
      [] OTHER -> val

\* line 114: (bk.get("key") or bk.get("title") or "").strip().lower()
book_name(bk) == StripLowerName(IF bk.key # "" THEN bk.key ELSE bk.title)

\* a rule that keeps the first offer recorded for a side
keep_first(cur) == IsNone(cur)

\* line 127: the slot is empty or holds a book other than fanduel
keep(cur) == IF IsNone(cur) THEN TRUE ELSE Get(cur).book # "fanduel"

\* sidebook[key], the defaultdict's value for a key not stored yet
SideOf(sidebook, key) ==
    IF key \in DOMAIN sidebook THEN sidebook[key] ELSE [over |-> None, under |-> None]

\* _pair_outcomes lines 107-130 over the outcomes in iteration order, each
\* carrying its bookmaker and the key of its market
RECURSIVE _pair_outcomes(_, _, _)
_pair_outcomes(outcomes, stat_key, sidebook) ==
    IF outcomes = <<>> THEN sidebook
    ELSE LET o == Head(outcomes)
             sp == _resolve_side_and_player(o.name, o.description)
             key == <<sp[2], stat_key, _norm_point(o.point)>>
             entry == SideOf(sidebook, key)
         IN  IF o.market # stat_key \/ IsNone(sp[1]) \/ sp[2] = "" \/ IsNone(o.price)
             THEN _pair_outcomes(Tail(outcomes), stat_key, sidebook)
             ELSE _pair_outcomes(Tail(outcomes), stat_key,
                     [k \in DOMAIN sidebook \cup {key} |->
                         IF k # key THEN sidebook[k]
                         ELSE IF keep(entry[Get(sp[1])])
                         THEN [entry EXCEPT ![Get(sp[1])] =
                                  Some([price |-> Get(o.price), book |-> book_name(o.bk)])]
                         ELSE entry])

\* ---- the outcomes drawn for _pair_outcomes
FANDUEL == [key |-> "fanduel", title |-> "FanDuel"]
FANDUEL_TITLE == [key |-> "", title |-> " FanDuel "]
DRAFTKINGS == [key |-> "draftkings", title |-> "DraftKings"]
BETMGM == [key |-> "betmgm", title |-> "BetMGM"]
Outcome(bk, market, name, description, price, point) ==
    [bk |-> bk, market |-> market, name |-> name, description |-> description,
     price |-> price, point |-> point]
OutcomePool ==
    {Outcome(FANDUEL, "batter_hits", "Over", "Aaron Judge", Some(-110), "0.5"),
     Outcome(FANDUEL_TITLE, "batter_hits", "Aaron Judge", "Over", Some(120), "0.50"),
     Outcome(DRAFTKINGS, "batter_hits", "Over", "Aaron Judge", Some(-105), "0.5"),
     Outcome(DRAFTKINGS, "batter_hits", "Over", "Aaron Judge", Some(130), "0.50"),
     Outcome(BETMGM, "batter_hits", "Under", "Aaron Judge", Some(-120), "0.5"),
     Outcome(FANDUEL, "batter_hits", "Under", "Aaron Judge", Some(-115), "0.5"),
     Outcome(FANDUEL, "batter_hits", "Over", "Aaron Judge", None, "0.5"),
     Outcome(FANDUEL, "batter_home_runs", "Over", "Aaron Judge", Some(-140), "0.5"),
     Outcome(FANDUEL, "batter_hits", "Aaron Judge", "", Some(-150), "0.5"),
     Outcome(DRAFTKINGS, "batter_hits", "Aaron Judge Over", "", Some(-125), "0.5"),
     Outcome(DRAFTKINGS, "batter_hits", "Over", "Aaron Judge", Some(-130), "1.5")}
MaxOutcomes == 3
OutcomeLists == UNION {[1..n -> OutcomePool] : n \in 0..MaxOutcomes}
PairOutcomesCalls ==
    {[fn |-> "_pair_outcomes", arg |-> outcomes, done |-> FALSE, out |-> None] :
        outcomes \in OutcomeLists}

PairOutcomes ==
    /\ libCall.fn = "_pair_outcomes" /\ ~libCall.done
    /\ libCall' = [libCall EXCEPT
                      !.done = TRUE,
                      !.out = Some(_pair_outcomes(libCall.arg, "batter_hits",
                                                  [k \in {} |-> {}]))]
    /\ UNCHANGED exceptLib

----------------------------------------------------------------------------
(* odds_api.py: deduplicate_props *)

\* a string is the sequence of its "_"-separated pieces, so that joining two
\* strings with "_" is concatenation; line 687: f"{player}_{stat}_{line}"
DedupKey(prop) == prop.player \o prop.stat \o <<prop.line>>

\* line 698: the stored row is replaced when its odds is positive or negative
\* and the new odds is higher
BetterOdds(current_odds, new_odds) ==
    \/ current_odds > 0 /\ new_odds > current_odds
    \/ current_odds < 0 /\ new_odds > current_odds

\* lines 683-699: unique_props as the sequence of its items in insertion
\* order (a replaced value keeps its key's place)
RECURSIVE DedupFold(_, _)
DedupFold(props, unique_props) ==
    IF props = <<>> THEN unique_props
    ELSE LET prop == Head(props)
             key == DedupKey(prop)
             at == {i \in 1..Len(unique_props) : unique_props[i].key = key}
         IN  IF at = {}
             THEN DedupFold(Tail(props),
                            Append(unique_props, [key |-> key, prop |-> prop]))
             ELSE LET i == CHOOSE x \in at : TRUE IN
                  IF BetterOdds(unique_props[i].prop.odds, prop.odds)
                  THEN DedupFold(Tail(props),
                                 [unique_props EXCEPT ![i].prop = prop])
                  ELSE DedupFold(Tail(props), unique_props)

\* deduplicate_props lines 681-703: list(unique_props.values())
deduplicate_props(props) ==
    LET unique_props == DedupFold(props, <<>>) IN
    [i \in 1..Len(unique_props) |-> unique_props[i].prop]

\* ---- the rows drawn for deduplicate_props
DedupProp(player, stat, odds) ==
    [player |-> player, stat |-> stat, line |-> "0.5", odds |-> odds]
DedupPool ==
    {DedupProp(player, stat, odds) :
        player \in {<<"judge">>, <<"judge", "batter">>},
        stat \in {<<"batter", "hits">>, <<"hits">>},
        odds \in {-110, 0, 150}}
MaxProps == 3
DedupCalls ==
    {[fn |-> "deduplicate_props", arg |-> props, done |-> FALSE, out |-> None] :
        props \in UNION {[1..n -> DedupPool] : n \in 0..MaxProps}}

\* deduplicate_props(props) and deduplicate_props of the result
DeduplicateProps ==
    /\ libCall.fn = "deduplicate_props" /\ ~libCall.done
    /\ libCall' = [libCall EXCEPT
                      !.done = TRUE,
                      !.out = Some([once |-> deduplicate_props(libCall.arg),
                                    twice |-> deduplicate_props(
                                                 deduplicate_props(libCall.arg))])]
    /\ UNCHANGED exceptLib

----------------------------------------------------------------------------
(* SpecLib: one library call on a drawn input *)

LibIdle == libCall = [fn |-> "", arg |-> None, done |-> FALSE, out |-> None]

LibInit ==
    \/ libCall \in PairingCalls
    \/ libCall \in MergeCalls
    \/ libCall \in PayloadCalls
    \/ libCall \in OddsMathCalls
    \/ libCall \in NormLeagueCalls
    \/ libCall \in PairOutcomesCalls
    \/ libCall \in DedupCalls

LibNext ==
    \/ BuildPropsNovig
    \/ MergeAndGate
    \/ BuildLlmPayload
    \/ OddsMath
    \/ NormLeague
    \/ PairOutcomes
    \/ DeduplicateProps

----------------------------------------------------------------------------
(* universal_cache.py: get_or_set calls that overlap.  get_or_set holds no *)
(* lock: between its get_cached, its fetcher and its set_cached another    *)
(* caller may run.                                                          *)

Callers == {"c1", "c2"}
MaxFetches == 2
\* the instants the clock visits: 07:59 (night), 08:00 and 10:00 (morning)
\* and 13:00 (afternoon) of day 0
RefreshTimes == {479, 480, 600, 780}
\* the props the n-th fetcher invocation returns
FetchValue(n) ==
    CASE n = 1 -> "props-1" [] n = 2 -> "props-2" [] n = 3 -> "props-3"
      [] n = 4 -> "props-4" [] OTHER -> "props-n"
NoKey == <<"props", "", 0, "">>
IdleCaller == [pc |-> "idle", data |-> "null", rkey |-> NoKey, seen |-> 0,
               hit |-> FALSE, ret |-> "null"]

RefreshStart ==
    /\ _mem = [k \in CacheKeys |-> None]
    /\ caller = [c \in Callers |-> IdleCaller]
    /\ fetches = 0
    /\ written = <<>>
RefreshIdle == wall = 0 /\ RefreshStart
RefreshInit == wall \in {479, 480} /\ RefreshStart

\* lines 86-88: data = get_cached(league); a value is returned at once
GetCached(c) ==
    /\ caller[c].pc \in {"idle", "done", "raised"}
    /\ LET data == get_cached(_mem, "mlb", wall)
           call == [IdleCaller EXCEPT !.rkey = _key("mlb", wall),
                                      !.seen = Len(written)]
       IN  IF data # "null"
           THEN caller' = [caller EXCEPT ![c] =
                              [call EXCEPT !.pc = "done", !.hit = TRUE, !.ret = data]]
           ELSE /\ fetches < MaxFetches
                /\ caller' = [caller EXCEPT ![c] = [call EXCEPT !.pc = "fetch"]]
    /\ UNCHANGED <<wall, _mem, fetches, written, exceptRefresh>>

\* line 89: data = fetcher(), which returns props, returns None or raises
Fetcher(c, outcome) ==
    /\ caller[c].pc = "fetch"
    /\ fetches' = fetches + 1
    /\ caller' = [caller EXCEPT ![c] =
                     IF outcome = "raise" THEN [@ EXCEPT !.pc = "raised"]
                     ELSE [@ EXCEPT !.pc = "set",
                                    !.data = IF outcome = "null" THEN "null"
                                             ELSE FetchValue(fetches + 1)]]
    /\ UNCHANGED <<wall, _mem, written, exceptRefresh>>

\* lines 90-91: set_cached(league, data); return data
SetCached(c) ==
    /\ caller[c].pc = "set"
    /\ _mem' = set_cached(_mem, "mlb", caller[c].data, wall)
    /\ written' = Append(written, [who |-> c, key |-> _key("mlb", wall), t |-> wall,
                                   rkey |-> caller[c].rkey, seen |-> caller[c].seen,
                                   val |-> caller[c].data])
    /\ caller' = [caller EXCEPT ![c] = [@ EXCEPT !.pc = "done", !.ret = caller[c].data]]
    /\ UNCHANGED <<wall, fetches, exceptRefresh>>

\* the clock moves on; an entry whose exp has passed is never read again
RefreshTick ==
    /\ \E t \in RefreshTimes : t > wall /\ wall' = t
    /\ _mem' = [k \in CacheKeys |->
                   IF NotNone(_mem[k]) /\ Get(_mem[k]).exp > wall' THEN _mem[k] ELSE None]
    /\ UNCHANGED <<caller, fetches, written, exceptRefresh>>

RefreshNext ==
    \/ \E c \in Callers : GetCached(c)
    \/ \E c \in Callers, outcome \in {"props", "null", "raise"} : Fetcher(c, outcome)
    \/ \E c \in Callers : SetCached(c)
    \/ RefreshTick

----------------------------------------------------------------------------
(* app.py: /verify requests that overlap.  verify reads license_keys.json, *)
(* adds its key to the map it read and writes the map back, with no lock.  *)

Buyers == {"jane", "john"}
CustomerOf(b) ==
    IF b = "jane"
    THEN [name |-> JANE_DOE, rec |-> [email |-> "jane@example.com", plan |-> "subscription"]]
    ELSE [name |-> JOHN_DOE, rec |-> [email |-> "john@example.com", plan |-> "payment"]]
\* a key sold earlier
SMITH_KEY == <<"s", "m", "i", "t", "h", "1", "2", "3", "4">>
SMITH_REC == [email |-> "smith@example.com", plan |-> "subscription"]
\* the file before the purchases: missing, an empty map, or one earlier key
StoresBefore ==
    {None, Some([k \in {} |-> SMITH_REC]), Some([k \in {SMITH_KEY} |-> SMITH_REC])}
NewBuyer == [pc |-> "start", key |-> <<>>, keys |-> [k \in {} |-> SMITH_REC],
             loadedAfter |-> 0, valid |-> "", checkedAfter |-> 0]

PurchaseStart ==
    /\ buyer = [b \in Buyers |-> NewBuyer]
    /\ saved = <<>>
PurchaseIdle == LICENSE_DB = None /\ PurchaseStart
PurchaseInit == LICENSE_DB \in StoresBefore /\ PurchaseStart

\* verify lines 237-251: the key is made and the file is read; a missing,
\* empty or half-written file reads as {}
LoadKeys(b, suffix) ==
    /\ buyer[b].pc = "start"
    /\ buyer' = [buyer EXCEPT ![b] =
                    [NewBuyer EXCEPT !.pc = "loaded",
                                     !.key = IssueKey(Some(CustomerOf(b).name), suffix),
                                     !.keys = Keys(LICENSE_DB),
                                     !.loadedAfter = Len(saved)]]
    /\ UNCHANGED <<LICENSE_DB, saved, exceptPurchase>>

\* line 267: open(LICENSE_DB, 'w') truncates the file
OpenForWrite(b) ==
    /\ buyer[b].pc = "loaded"
    /\ LICENSE_DB' = None
    /\ buyer' = [buyer EXCEPT ![b].pc = "writing"]
    /\ UNCHANGED <<saved, exceptPurchase>>

\* lines 266-271: keys[key] = {...}; json.dump(keys, f); the page shows key
DumpKeys(b) ==
    /\ buyer[b].pc = "writing"
    /\ LICENSE_DB' = StoreKey(Some(buyer[b].keys), buyer[b].key, CustomerOf(b).rec)
    /\ saved' = Append(saved, b)
    /\ buyer' = [buyer EXCEPT ![b].pc = "shown"]
    /\ UNCHANGED exceptPurchase

\* the purchaser enters the displayed key at /validate-key
EnterKey(b) ==
    /\ buyer[b].pc = "shown"
    /\ buyer' = [buyer EXCEPT ![b].pc = "checked",
                              ![b].valid = ValidateKeyOutcome(LICENSE_DB, buyer[b].key),
                              ![b].checkedAfter = Len(saved)]
    /\ UNCHANGED <<LICENSE_DB, saved, exceptPurchase>>

PurchaseNext ==
    \/ \E b \in Buyers, suffix \in Suffixes : LoadKeys(b, suffix)
    \/ \E b \in Buyers : OpenForWrite(b)
    \/ \E b \in Buyers : DumpKeys(b)
    \/ \E b \in Buyers : EnterKey(b)

----------------------------------------------------------------------------
(* odds_api.py: enrich_player_props.  executor.map(enrich_prop, props)     *)
(* submits one call per prop to a pool of 10 threads; the calls finish in  *)
(* any order and the results are listed in the order of the props.         *)

MAX_WORKERS == 10
MaxBatch == 2

\* the rows of a batch: a row with a resolved fair, a row at 0/0 with both
\* prices, and a row without a "player" key
EnrichPool ==
    {_attach_fair_or_implied(RawRow(Some("Mookie Betts"), Some(-110), Some(-120), Some(-110)),
                             [over |-> TRUE, under |-> TRUE]),
     [RawRow(Some("Aaron Judge"), Some(150), Some(-130), Some(150)) EXCEPT
         !.fair = Some(FairOrDefault(RawRow(None, None, None, None)))],
     RawRow(None, Some(-110), None, Some(-110))}
\* what the lookups of one call do
EnrichEnvs == {env \in Lookups : env.rate = 420 /\ env.mult = 100}

NoFuture == [state |-> "pending", env |-> CHOOSE env \in EnrichEnvs : TRUE,
             result |-> None]

\* a collection that lists the results as they complete
completion_order(n, done) == done

\* executor.map: the results in the order of the submitted props
map_order(n, done) == [i \in 1..n |-> i]

EnrichStart ==
    /\ future = [i \in 1..Len(batch) |-> NoFuture]
    /\ completed = <<>>
    /\ enriched_props = None
EnrichIdle == batch = <<>> /\ EnrichStart
EnrichInit == batch \in UNION {[1..n -> EnrichPool] : n \in 0..MaxBatch} /\ EnrichStart

\* a pool thread takes the next queued call
StartEnrich(i) ==
    /\ IsNone(enriched_props)
    /\ future[i].state = "pending"
    /\ \A j \in 1..(i - 1) : future[j].state # "pending"
    /\ Cardinality({j \in DOMAIN future : future[j].state = "running"}) < MAX_WORKERS
    /\ future' = [future EXCEPT ![i].state = "running"]
    /\ UNCHANGED <<batch, completed, enriched_props, exceptEnrich>>

\* enrich_prop(props[i]) runs to its return on its thread
FinishEnrich(i, env, t) ==
    /\ future[i].state = "running"
    /\ future' = [future EXCEPT ![i] = [state |-> "done", env |-> env,
                                        result |-> Some(enrich_prop(batch[i], env, t))]]
    /\ completed' = Append(completed, i)
    /\ UNCHANGED <<batch, enriched_props, exceptEnrich>>

\* lines 902-916: [] for no props; otherwise list(executor.map(...)) once
\* every call has finished
ReturnEnriched ==
    /\ IsNone(enriched_props)
    /\ \A i \in DOMAIN future : future[i].state = "done"
    /\ enriched_props' =
          Some(LET order == map_order(Len(batch), completed) IN
               [k \in 1..Len(batch) |-> Get(future[order[k]].result)])
    /\ UNCHANGED <<batch, future, completed, exceptEnrich>>

EnrichNext ==
    \/ \E i \in DOMAIN future : StartEnrich(i)
    \/ \E i \in DOMAIN future, env \in EnrichEnvs, t \in Ties : FinishEnrich(i, env, t)
    \/ ReturnEnriched

----------------------------------------------------------------------------
(* mlb_http.py: threads calling get_json *)

\* the clock counts half seconds
TICKS_PER_SECOND == 2

\* the instant 0.0 of time.time(), long before the process started
EPOCH == -(4 * TICKS_PER_SECOND)

\* MLB_QPS as configured in the environment: 0.5, 1 or 2 requests per second
QpsChoices == {<<1, 2>>, <<1, 1>>, <<2, 1>>}
DEFAULT_QPS == <<5, 1>>

\* MLB_CACHE_TTL as configured in the environment, in seconds
MLB_CACHE_TTL == 1
TtlTicks == MLB_CACHE_TTL * TICKS_PER_SECOND

\* min_interval = 1.0 / max(MLB_QPS, 1.0), in ticks
min_interval(qps) ==
    LET q == FracMax(qps, FracOne) IN (TICKS_PER_SECOND * q[2]) \div q[1]

Threads == {"t1", "t2"}
MaxClock == 3

\* params as the caller built the dict: (name, value) pairs in insertion order
ParamRank == [names |-> 1, sportId |-> 2]
SortKeys(params) ==
    IF Len(params) = 2 /\ ParamRank[params[2][1]] < ParamRank[params[1][1]]
    THEN <<params[2], params[1]>> ELSE params

\* _ckey: path ? json.dumps(params, sort_keys=True)
_ckey(path, params) == <<path, SortKeys(params)>>

HttpRequests ==
    {<<"people/search", <<<<"names", "judge">>, <<"sportId", "1">>>>>>,
     <<"people/search", <<<<"sportId", "1">>, <<"names", "judge">>>>>>,
     <<"teams", <<>>>>}
HttpKeys == {_ckey(r[1], r[2]) : r \in HttpRequests}

IdleThread == [pc |-> "idle", key |-> <<"", <<>>>>, now |-> 0, wake |-> 0]
NoReturn == [key |-> <<"", <<>>>>, how |-> "", at |-> 0, ts |-> 0]

HttpStart(qps) ==
    /\ MLB_QPS = qps
    /\ clock = 0
    /\ _lock = ""
    /\ _last_ts = EPOCH
    /\ _cache = [k \in HttpKeys |-> None]
    /\ thread = [t \in Threads |-> IdleThread]
    /\ released = <<>>
    /\ returned = NoReturn

HttpIdle == HttpStart(DEFAULT_QPS)
HttpInit == \E qps \in QpsChoices : HttpStart(qps)

Return(t, how, ts) ==
    returned' = [key |-> thread[t].key, how |-> how, at |-> clock, ts |-> ts]

\* get_json, lines 41-42: the key is built and the time is read
GetJson(t, path, params) ==
    /\ thread[t].pc = "idle"
    /\ thread' = [thread EXCEPT ![t] = [pc |-> "lookup", key |-> _ckey(path, params),
                                        now |-> clock, wake |-> 0]]
    /\ UNCHANGED <<MLB_QPS, clock, _lock, _last_ts, _cache, released, returned>>
    /\ UNCHANGED exceptHttp

\* get_json, lines 43-46: under the lock, a hit younger than the TTL (by the
\* time read at line 42) is returned
Lookup(t) ==
    /\ thread[t].pc = "lookup"
    /\ _lock = ""
    /\ LET hit == _cache[thread[t].key] IN
       IF NotNone(hit) /\ thread[t].now - Get(hit).ts < TtlTicks
       THEN /\ thread' = [thread EXCEPT ![t] = IdleThread]
            /\ Return(t, "cache", Get(hit).ts)
       ELSE /\ thread' = [thread EXCEPT ![t].pc = "rate_limit"]
            /\ UNCHANGED returned
    /\ UNCHANGED <<MLB_QPS, clock, _lock, _last_ts, _cache, released>>
    /\ UNCHANGED exceptHttp

\* _rate_limit, lines 30-35: the lock is taken; with nothing to wait for the
\* request is released at once, otherwise the thread sleeps holding the lock
RateLimit(t) ==
    /\ thread[t].pc = "rate_limit"
    /\ _lock = ""
    /\ LET wait == _last_ts + min_interval(MLB_QPS) - clock IN
       IF wait > 0
       THEN /\ _lock' = t
            /\ thread' = [thread EXCEPT ![t].pc = "sleeping", ![t].wake = clock + wait]
            /\ UNCHANGED <<_last_ts, released>>
       ELSE /\ _last_ts' = clock
            /\ released' = Append(released, clock)
            /\ thread' = [thread EXCEPT ![t].pc = "get"]
            /\ UNCHANGED _lock
    /\ UNCHANGED <<MLB_QPS, clock, _cache, returned>>
    /\ UNCHANGED exceptHttp

\* _rate_limit, lines 34-35: time.sleep(wait) is over (it sleeps at least
\* wait); _last_ts is set and the lock released
Wake(t) ==
    /\ thread[t].pc = "sleeping"
    /\ clock >= thread[t].wake
    /\ _last_ts' = clock
    /\ released' = Append(released, clock)
    /\ _lock' = ""
    /\ thread' = [thread EXCEPT ![t].pc = "get"]
    /\ UNCHANGED <<MLB_QPS, clock, _cache, returned>>
    /\ UNCHANGED exceptHttp

\* get_json, lines 48-51: the outbound request; raise_for_status() or
\* resp.json() raises on failure
SessionGet(t, ok) ==
    /\ thread[t].pc = "get"
    /\ IF ok
       THEN /\ thread' = [thread EXCEPT ![t].pc = "store"]
            /\ UNCHANGED returned
       ELSE /\ thread' = [thread EXCEPT ![t] = IdleThread]
            /\ Return(t, "error", 0)
    /\ UNCHANGED <<MLB_QPS, clock, _lock, _last_ts, _cache, released>>
    /\ UNCHANGED exceptHttp

\* get_json, lines 52-54: under the lock the response is stored with the
\* time of storing
Store(t) ==
    /\ thread[t].pc = "store"
    /\ _lock = ""
    /\ _cache' = [_cache EXCEPT ![thread[t].key] = Some([ts |-> clock, data |-> "json"])]
    /\ thread' = [thread EXCEPT ![t] = IdleThread]
    /\ Return(t, "fetched", clock)
    /\ UNCHANGED <<MLB_QPS, clock, _lock, _last_ts, released>>
    /\ UNCHANGED exceptHttp

\* a thread that is not running: it is outside get_json, asleep, waiting
\* for the response, or waiting for the lock another thread holds
Blocked(t) ==
    \/ thread[t].pc \in {"idle", "sleeping", "get"}
    \/ thread[t].pc \in {"lookup", "rate_limit", "store"} /\ _lock \notin {"", t}

\* time passes while no thread is running (the statements themselves take
\* no time)
HttpTick ==
    /\ clock < MaxClock
    /\ \A t \in Threads : Blocked(t)
    /\ clock' = clock + 1
    /\ UNCHANGED <<MLB_QPS, _lock, _last_ts, _cache, thread, released, returned>>
    /\ UNCHANGED exceptHttp

HttpNext ==
    \/ \E t \in Threads, r \in HttpRequests : GetJson(t, r[1], r[2])
    \/ \E t \in Threads : Lookup(t)
    \/ \E t \in Threads : RateLimit(t)
    \/ \E t \in Threads : Wake(t)
    \/ \E t \in Threads, ok \in BOOLEAN : SessionGet(t, ok)
    \/ \E t \in Threads : Store(t)
    \/ HttpTick

----------------------------------------------------------------------------
(* trends_l10.py: resolve_mlb_player_id *)

_NEG_TTL == 900
SECONDS_PER_TICK == 300
MaxTicks == 4

\* the names asked for; "" stands for an empty or missing name
PlayerNames == {"", "Aaron Judge", "AARON JUDGE", "Bobby Witt Jr"}

\* name.lower()
LowerName(name) ==
    CASE name = "Aaron Judge" -> "aaron judge"
      [] name = "AARON JUDGE" -> "aaron judge"
      [] name = "Bobby Witt Jr" -> "bobby witt jr"
      [] OTHER -> name

\* list(_variants(name)): as-is, then with the suffix stripped (none of the
\* names has periods, initials or an alias, and first + last adds nothing
\* new)
_variants(name) ==
    CASE name = "Bobby Witt Jr" -> <<"Bobby Witt Jr", "Bobby Witt">>
      [] OTHER -> <<name>>

Queries == UNION {{_variants(n)[i] : i \in 1..Len(_variants(n))} : n \in PlayerNames \ {""}}
NegKeys == {LowerName(n) : n \in PlayerNames \ {""}}

\* what the provider does with one search: the request fails, finds nobody,
\* or finds the player
ProviderOutcomes == {"raise", "empty", "found"}
PLAYER_ID == 592450

\* _people_search under lru_cache: a result that was returned before is
\* returned again without a request; an exception is not cached
\* lines 109-127: the cascade over the variants, stopping at the first pid
RECURSIVE Cascade(_, _, _, _)
Cascade(qs, lru, outcome, queried) ==
    IF qs = <<>> THEN [pid |-> None, lru |-> lru, queried |-> queried]
    ELSE LET q == Head(qs)
             cached == NotNone(lru[q])
             people == IF cached THEN Get(lru[q]) ELSE Head(outcome)
             lru2 == IF cached \/ people = "raise" THEN lru
                     ELSE [lru EXCEPT ![q] = Some(people)]
             queried2 == IF cached THEN queried ELSE Append(queried, q)
         IN  IF people = "found"
             THEN [pid |-> Some(PLAYER_ID), lru |-> lru2, queried |-> queried2]
             ELSE Cascade(Tail(qs), lru2, Tail(outcome), queried2)

\* the negative cache guard of lines 103-107 (a time.time() value is never 0)
NegativelyCached(name, t) ==
    LET seen == _NEG_PID[LowerName(name)] IN
    NotNone(seen) /\ t - Get(seen) < _NEG_TTL

NoResolve == [name |-> "", at |-> 0, pid |-> None, queried |-> <<>>, guarded |-> FALSE,
              failedAt |-> None]

ResolverStart ==
    /\ rnow = 0
    /\ _NEG_PID = [k \in NegKeys |-> None]
    /\ searched = [q \in Queries |-> None]
    /\ resolved = NoResolve

ResolverIdle == ResolverStart
ResolverInit == ResolverStart

\* resolve_mlb_player_id(name); outcome lists what the provider would answer
\* to each variant in turn
ResolveMlbPlayerId(name, outcome) ==
    /\ IF name = ""
       THEN /\ resolved' = [NoResolve EXCEPT !.at = rnow]
            /\ UNCHANGED <<_NEG_PID, searched>>
       ELSE LET before == _NEG_PID[LowerName(name)] IN
            IF NegativelyCached(name, rnow)
            THEN /\ resolved' = [name |-> name, at |-> rnow, pid |-> None, queried |-> <<>>,
                                 guarded |-> TRUE, failedAt |-> before]
                 /\ UNCHANGED <<_NEG_PID, searched>>
            ELSE LET r == Cascade(_variants(name), searched, outcome, <<>>) IN
                 /\ searched' = r.lru
                 /\ _NEG_PID' = IF IsNone(r.pid)
                                THEN [_NEG_PID EXCEPT ![LowerName(name)] = Some(rnow)]
                                ELSE _NEG_PID
                 /\ resolved' = [name |-> name, at |-> rnow, pid |-> r.pid,
                                 queried |-> r.queried, guarded |-> FALSE,
                                 failedAt |-> before]
    /\ UNCHANGED rnow
    /\ UNCHANGED exceptResolver

ResolverTick ==
    /\ rnow < MaxTicks * SECONDS_PER_TICK
    /\ rnow' = rnow + SECONDS_PER_TICK
    /\ UNCHANGED <<_NEG_PID, searched, resolved>>
    /\ UNCHANGED exceptResolver

ResolverNext ==
    \/ \E name \in PlayerNames :
          \E outcome \in [1..Len(_variants(name)) -> ProviderOutcomes] :
              ResolveMlbPlayerId(name, outcome)
    \/ ResolverTick

----------------------------------------------------------------------------
(* contextual.py: get_contextual_hit_rate_cached *)

TICKS_PER_DAY == 8
MaxCtxTicks == 9
\* R.setex(key, 6*3600, ...): six hours, in ticks
SETEX_TICKS == 2

CtxPlayers == {"Aaron Judge"}
CtxStats == {"hits"}
CtxThresholds == {1, 2}

\* _cache_key: "ctx:{date.today().isoformat()}:{player}:{stat}:{th}"
_cache_key(player, stat, th) == <<"ctx", today \div TICKS_PER_DAY, player, stat, th>>
CtxKeys ==
    {<<"ctx", d, p, s, th>> : d \in 0..(MaxCtxTicks \div TICKS_PER_DAY) + 1,
                              p \in CtxPlayers, s \in CtxStats, th \in CtxThresholds}

\* what get_contextual_hit_rate returns for the player at the moment
Payloads == {[hit_rate |-> 7000, sample_size |-> 10], [hit_rate |-> 6000, sample_size |-> 10]}

\* json.dumps of a payload, and json.loads of a string: a cache key is not
\* JSON, json.loads raises on it (None)
JsonDumps(payload) == <<"json", payload>>
JsonLoads(str) == IF str[1] = "json" THEN Some(str[2]) ELSE None

\* _memo_key under lru_cache: returns its argument, which the cache then holds
_memo_key(k) == k

\* R.get(key): the value while the entry has not expired
RedisGet(key) ==
    IF NotNone(redis[key]) /\ today < Get(redis[key]).exp THEN Some(Get(redis[key]).val)
    ELSE None

NoAnswer == [key |-> <<"ctx", 0, "", "", 0>>, at |-> 0, invoked |-> FALSE, payload |-> None,
             before |-> None]

CtxStart(configured) ==
    /\ today = 0
    /\ R = configured
    /\ redis = [k \in CtxKeys |-> None]
    /\ memo = {}
    /\ computedFor = [k \in CtxKeys |-> None]
    /\ answer = NoAnswer

CtxIdle == CtxStart(FALSE)
CtxInit == \E configured \in BOOLEAN : CtxStart(configured)

\* get_contextual_hit_rate_cached(player, stat, th); computed is what
\* get_contextual_hit_rate would return now (None: it raises)
GetContextualHitRateCached(player, stat, th, computed) ==
    LET key == _cache_key(player, stat, th)
        cached == IF R THEN RedisGet(key) ELSE None
        memoed == JsonLoads(_memo_key(key))
    IN  /\ IF NotNone(cached)
           THEN \* lines 121-124
                /\ answer' = [key |-> key, at |-> today, invoked |-> FALSE,
                              payload |-> JsonLoads(Get(cached)), before |-> computedFor[key]]
                /\ UNCHANGED <<redis, memo, computedFor>>
           ELSE IF NotNone(memoed)
           THEN \* lines 127-129
                /\ answer' = [key |-> key, at |-> today, invoked |-> FALSE,
                              payload |-> memoed, before |-> computedFor[key]]
                /\ memo' = memo \cup {key}
                /\ UNCHANGED <<redis, computedFor>>
           ELSE IF IsNone(computed)
           THEN \* line 134 raises
                /\ answer' = [key |-> key, at |-> today, invoked |-> TRUE,
                              payload |-> None, before |-> computedFor[key]]
                /\ memo' = memo \cup {key}
                /\ UNCHANGED <<redis, computedFor>>
           ELSE \* lines 134-146
                /\ answer' = [key |-> key, at |-> today, invoked |-> TRUE,
                              payload |-> computed, before |-> computedFor[key]]
                /\ redis' = IF R
                            THEN [redis EXCEPT ![key] =
                                     Some([val |-> JsonDumps(Get(computed)),
                                           exp |-> today + SETEX_TICKS])]
                            ELSE redis
                /\ memo' = {_memo_key(JsonDumps(Get(computed))), _memo_key(key)}
                /\ computedFor' = IF IsNone(computedFor[key])
                                  THEN [computedFor EXCEPT ![key] = computed]
                                  ELSE computedFor
        /\ UNCHANGED <<today, R>>
        /\ UNCHANGED exceptCtx

CtxTick ==
    /\ today < MaxCtxTicks
    /\ today' = today + 1
    /\ UNCHANGED <<R, redis, memo, computedFor, answer>>
    /\ UNCHANGED exceptCtx

CtxNext ==
    \/ \E p \in CtxPlayers, s \in CtxStats, th \in CtxThresholds,
          computed \in {None} \cup {Some(x) : x \in Payloads} :
            GetContextualHitRateCached(p, s, th, computed)
    \/ CtxTick

----------------------------------------------------------------------------
(* The specifications *)

WebIdle ==
    /\ session = [s \in Sessions |-> Anonymous]
    /\ license_db = None
    /\ slot_cache = EmptySlots
    /\ CRON_KEY = None
    /\ issued = {}
    /\ last = NoRequest

\* the store of a deployment that has sold one license
DOE_KEY == IssueKey(Some(JANE_DOE), <<"0", "4", "1", "7">>)
DOE_REC == [email |-> "jane@example.com", plan |-> "subscription"]

\* the gateway starts with one license sold, and with or without a cron
\* secret in its environment
GatewayInit ==
    /\ session = [s \in Sessions |-> Anonymous]
    /\ license_db = StoreKey(None, DOE_KEY, DOE_REC)
    /\ issued = {<<DOE_KEY, DOE_REC>>}
    /\ slot_cache = EmptySlots
    /\ CRON_KEY \in CronKeys
    /\ last = NoRequest

GatewayNext ==
    \/ \E s \in Sessions, route \in SimpleRoutes : SimplePage(s, route)
    \/ \E s \in Sessions : Tool(s)
    \/ \E s \in Sessions, pk \in {k \in KeysToTry : k[1] \in PlainKeyForms} :
          ValidateKey(s, pk)
    \/ \E s \in Sessions, pk \in {k \in KeysToTry : k[1] \in PlainKeyForms} :
          Dashboard(s, pk, TRUE)
    \/ \E s \in Sessions : Logout(s)
    \/ \E s \in Sessions, l \in LeagueParams, nocache \in BOOLEAN, ok \in BOOLEAN :
          \E d \in DateParamsFor(l) : GetProps(s, l, d, nocache, ok)
    \/ \E s \in Sessions, l \in AiLeagueParams, env \in AiEnvs, ok \in BOOLEAN :
          AiEdgeScout(s, l, env, ok)
    \/ \E s \in Sessions, l \in ApiLeagueParams : ApiAiScout(s, l)
    \/ \E token \in Tokens, ls \in LeagueLists, failing \in Failures :
          CronPrewarm(token, ls, failing)
    \/ SlotBoundary

\* the license flow starts before the first sale: no license file
LicenseInit ==
    /\ session = [s \in Sessions |-> Anonymous]
    /\ license_db = None
    /\ slot_cache = EmptySlots
    /\ CRON_KEY = None
    /\ issued = {}
    /\ last = NoRequest

LicenseNext ==
    \/ \E s \in Sessions, v \in VerifyRequests : Verify(s, v[1], v[2], v[3])
    \/ \E s \in Sessions, pk \in KeysToTry : VerifyKey(s, pk)
    \/ \E s \in Sessions, pk \in KeysToTry : ValidateKey(s, pk)
    \/ \E s \in Sessions, pk \in KeysToTry, ok \in BOOLEAN : Dashboard(s, pk, ok)
    \/ \E s \in Sessions, pk \in KeysToTry, ok \in BOOLEAN : DashboardLegacy(s, pk, ok)
    \/ \E s \in Sessions : Tool(s)
    \/ \E s \in Sessions : Logout(s)
    \/ \E s \in Sessions : SimplePage(s, PERF_RECENT)

\* the web gateway: the middleware, the props routes, the cron route
Init == FairIdle /\ CacheIdle /\ GatewayInit /\ LibIdle /\ HttpIdle /\ ResolverIdle /\ CtxIdle /\ RefreshIdle /\ PurchaseIdle /\ EnrichIdle
Spec == Init /\ [][GatewayNext]_vars

\* the license flow: issuing keys and the three key checks
InitLicense == FairIdle /\ CacheIdle /\ LicenseInit /\ LibIdle /\ HttpIdle /\ ResolverIdle /\ CtxIdle /\ RefreshIdle /\ PurchaseIdle /\ EnrichIdle
SpecLicense == InitLicense /\ [][LicenseNext]_vars

\* universal_cache.py under the clock
InitCache == FairIdle /\ CacheInit /\ WebIdle /\ LibIdle /\ HttpIdle /\ ResolverIdle /\ CtxIdle /\ RefreshIdle /\ PurchaseIdle /\ EnrichIdle
SpecCache == InitCache /\ [][CacheNext]_vars

\* one prop row through the fair-probability pipeline of odds_api.py
InitFair == FairInit /\ CacheIdle /\ WebIdle /\ LibIdle /\ HttpIdle /\ ResolverIdle /\ CtxIdle /\ RefreshIdle /\ PurchaseIdle /\ EnrichIdle
SpecFair == InitFair /\ [][FairNext]_vars

\* one call of a library function of pairing.py, ai_scout.py or probability.py
InitLib == FairIdle /\ CacheIdle /\ WebIdle /\ LibInit /\ HttpIdle /\ ResolverIdle /\ CtxIdle /\ RefreshIdle /\ PurchaseIdle /\ EnrichIdle
SpecLib == InitLib /\ [][LibNext]_vars


\* mlb_http.py: threads calling get_json under the clock
InitHttp == FairIdle /\ CacheIdle /\ WebIdle /\ LibIdle /\ HttpInit /\ ResolverIdle /\ CtxIdle /\ RefreshIdle /\ PurchaseIdle /\ EnrichIdle
SpecHttp == InitHttp /\ [][HttpNext]_vars


\* trends_l10.py: name resolution under the clock
InitResolver == FairIdle /\ CacheIdle /\ WebIdle /\ LibIdle /\ HttpIdle /\ ResolverInit /\ CtxIdle /\ RefreshIdle /\ PurchaseIdle /\ EnrichIdle
SpecResolver == InitResolver /\ [][ResolverNext]_vars


\* contextual.py: the caching wrapper under the clock
InitContextual == FairIdle /\ CacheIdle /\ WebIdle /\ LibIdle /\ HttpIdle /\ ResolverIdle /\ CtxInit /\ RefreshIdle /\ PurchaseIdle /\ EnrichIdle
SpecContextual == InitContextual /\ [][CtxNext]_vars

\* overlapping get_or_set calls on the slot cache
InitRefresh == FairIdle /\ CacheIdle /\ WebIdle /\ LibIdle /\ HttpIdle /\ ResolverIdle /\ CtxIdle /\ RefreshInit /\ PurchaseIdle /\ EnrichIdle
SpecRefresh == InitRefresh /\ [][RefreshNext]_vars

\* overlapping post-purchase verifications
InitPurchase == FairIdle /\ CacheIdle /\ WebIdle /\ LibIdle /\ HttpIdle /\ ResolverIdle /\ CtxIdle /\ RefreshIdle /\ PurchaseInit /\ EnrichIdle
SpecPurchase == InitPurchase /\ [][PurchaseNext]_vars

\* enrich_player_props over its thread pool
InitEnrich == FairIdle /\ CacheIdle /\ WebIdle /\ LibIdle /\ HttpIdle /\ ResolverIdle /\ CtxIdle /\ RefreshIdle /\ PurchaseIdle /\ EnrichInit
SpecEnrich == InitEnrich /\ [][EnrichNext]_vars

----------------------------------------------------------------------------
(* Claims about the web gateway and the license flow *)

DashboardTemplates == {"render:dashboard.html", "render:dashboard_legacy.html"}

\* C1: a request of an unlicensed session to an endpoint outside the public
\* list, on a path under neither /static nor /api/, is answered by the
\* redirect to the paywall; its handler does not run, no league is fetched
\* and no cache slot is written.
C1_UnlicensedIsRedirected ==
    (/\ last.ep # ""
     /\ ~last.licensedBefore
     /\ last.ep \notin public_endpoints
     /\ ~UnderStatic(last.path) /\ ~UnderApi(last.path))
        => (/\ last.resp = "redirect:paywall"
            /\ ~last.ran
            /\ last.fetched = {} /\ last.wrote = {})

\* an unlicensed session is turned away from /player_props while another
\* session is licensed and the cache holds props
C1_Witness ==
    /\ last.ep = "get_props" /\ ~last.licensedBefore
    /\ last.resp = "redirect:paywall"
    /\ \E s \in Sessions : session[s].licensed
    /\ slot_cache # EmptySlots

\* C2: a dashboard template (main or legacy) is rendered only for a session
\* that was already licensed or for a key parameter that matches a stored key.
C2_DashboardGatedByKey ==
    (last.ep \in {"dashboard", "dashboard_legacy"} /\ last.resp \in DashboardTemplates)
        => (last.licensedBefore \/ last.keyForm \in StoredKeyForms)

\* C3: a pre-warm request whose key is not a configured secret (wrong, absent,
\* or no secret configured) gets 401, invokes no fetcher and writes no slot.
C3_CronNeedsSecret ==
    (last.ep = "cron_prewarm" /\ ~(NotNone(CRON_KEY) /\ last.token = Get(CRON_KEY)))
        => (last.resp = "401" /\ last.fetched = {} /\ last.wrote = {})

\* C4: a stored key presented in any letter case is accepted at every entry
\* point: /verify-key answers valid:true, /validate-key licenses the session,
\* /dashboard?key= accepts it and licenses the session.
C4_KeyMatchIgnoresCase ==
    (last.ran /\ last.keyForm \in {"as-issued", "upper", "capitalised"})
        => (/\ last.ep = "verify_key" => last.resp = "json:valid_true"
            /\ last.ep = "validate_key" =>
                  (last.resp = "json:valid_true" /\ SessionOf(last.sess).licensed)
            /\ last.ep = "dashboard" =>
                  (last.resp # "500" /\ SessionOf(last.sess).licensed))

\* C5: every key ever issued is in the store with the record it was created
\* with.
C5_StoreIsAppendOnly ==
    \A pair \in issued :
        /\ pair[1] \in DOMAIN Keys(license_db)
        /\ Keys(license_db)[pair[1]] = pair[2]

\* C18: a /player_props request whose league does not normalise to mlb, nfl,
\* ncaaf or ufc is answered with status 400 and calls no fetcher.
C18_UnsupportedLeagueIs400 ==
    (last.ep = "get_props" /\ last.ran /\ _norm_league(last.league) \notin Leagues)
        => last.resp = "400" /\ last.fetched = {}

----------------------------------------------------------------------------
(* Claims about the library functions *)

UsablePrice(odds) == NotNone(odds) /\ Get(odds) # 0

\* an allowed book quotes both sides of the group with usable prices
QuotesBothSides(raw_offers, b) ==
    /\ InSeq(b, DEFAULT_BOOKS)
    /\ \E i \in 1..Len(raw_offers), j \in 1..Len(raw_offers) :
          /\ LowerWord(raw_offers[i].book) = b /\ LowerWord(raw_offers[j].book) = b
          /\ LowerWord(raw_offers[i].side) = "over" /\ LowerWord(raw_offers[j].side) = "under"
          /\ UsablePrice(raw_offers[i].odds) /\ UsablePrice(raw_offers[j].odds)
          /\ _market_ok(raw_offers[i].stat, raw_offers[i].line)

\* C11: when an allowed book quotes both sides of a group (of an allowed
\* market) with usable prices, the row build_props_novig keeps for the group
\* is a within-book pairing of such a book (source "novig"), whatever the
\* cross-book and single-side candidates are.
C11_WithinBookFirst ==
    (/\ libCall.fn = "build_props_novig" /\ libCall.done
     /\ \E b \in {"draftkings", "fanduel", "betmgm"} :
           QuotesBothSides(libCall.arg.raw_offers, b))
        => LET best == Get(libCall.out).best IN
           /\ NotNone(best)
           /\ Get(best).source = "novig"
           /\ Len(Get(best).shop) = 1
           /\ QuotesBothSides(libCall.arg.raw_offers, Get(best).shop[1])
           /\ Get(best).fair.book = Get(best).shop[1]

\* FanDuel quotes both sides at -110 (0.5 each) while DraftKings quotes the
\* over alone at -400, whose single-side estimate is a HIGH_OVER: the
\* FanDuel pairing is kept
C11_Witness ==
    /\ libCall.fn = "build_props_novig" /\ libCall.done
    /\ LET bm == Get(libCall.out).bookmap IN
       /\ bm.order = <<"draftkings", "fanduel">>
       /\ bm.sides["draftkings"] = [over |-> Some(-400), under |-> None]
       /\ bm.sides["fanduel"] = [over |-> Some(-110), under |-> Some(-110)]
    /\ Get(Get(libCall.out).best).source = "novig"
    /\ Get(Get(libCall.out).best).fair.prob.over = <<1, 2>>

Occurrences(seq, x) == Cardinality({i \in 1..Len(seq) : seq[i] = x})

C13_UnresolvedNotPriced ==
    (libCall.fn = "build_llm_payload" /\ libCall.done)
        => \A i \in 1..Len(libCall.arg.rows) :
              libCall.arg.rows[i].fair.prob = UNRESOLVED
                 => \A k \in 1..Len(Get(libCall.out)) :
                       LET rec == Get(libCall.out)[k] IN
                       \A n \in 1..Len(rec.markets) :
                          ~ /\ rec.player = StripWord(libCall.arg.rows[i].player)
                            /\ rec.markets[n].market = libCall.arg.rows[i].stat
                            /\ rec.markets[n].line = libCall.arg.rows[i].line
                            /\ rec.markets[n].prob = FracZero
                            /\ rec.markets[n].ev = Some(<<-1, 1>>)

----------------------------------------------------------------------------
(* Claims about the statistics-API client *)

\* C14: any two requests released by _rate_limit are at least 1/MLB_QPS
\* seconds apart, for every configured MLB_QPS > 0 and every interleaving.
C14_MinimumInterval ==
    \A i \in 1..Len(released) : \A j \in 1..Len(released) :
        i < j => (released[j] - released[i]) * MLB_QPS[1] >= TICKS_PER_SECOND * MLB_QPS[2]

\* C15: get_json returns a cached response only if it was stored less than
\* MLB_CACHE_TTL seconds before, the cache holds responses of successful
\* requests only, and a request that fails leaves the cache as it was.
C15_CacheNeverStale ==
    /\ [](returned.how = "cache" => returned.at - returned.ts < TtlTicks)
    /\ [][_cache' # _cache =>
              /\ returned'.how = "fetched"
              /\ _cache' = [_cache EXCEPT ![returned'.key] =
                                Some([ts |-> clock, data |-> "json"])]]_vars

----------------------------------------------------------------------------
(* Claims about the name resolver *)

\* C16: after a resolution of a name failed at time t, a call for the same
\* name (in any letter case) at a time in (t, t + 900 s) returns None
\* without any provider search, and a call at or after t + 900 s runs the
\* cascade and queries the provider again.
C16_NegativeCacheFifteenMinutes ==
    (resolved.name # "" /\ NotNone(resolved.failedAt))
        => LET t == Get(resolved.failedAt) IN
           /\ (t < resolved.at /\ resolved.at < t + 900)
                 => IsNone(resolved.pid) /\ resolved.queried = <<>>
           /\ resolved.at >= t + 900
                 => ~resolved.guarded /\ resolved.queried # <<>>

----------------------------------------------------------------------------
(* Claims about the contextual hit-rate cache *)

\* C17: once get_contextual_hit_rate_cached has computed a payload for
\* (player, stat, threshold), a repeat call with the same arguments on the
\* same calendar day returns that payload without invoking
\* get_contextual_hit_rate, with the external cache and with the in-process
\* memo alone.
C17_RepeatServedFromCache ==
    NotNone(answer.before)
        => ~answer.invoked /\ answer.payload = answer.before

\* C19: no odds-math function raises on bad numeric input (None, a
\* non-numeric string, 0): each returns a value or an absent, sentinel or
\* error value.
C19_OddsMathNeverRaises ==
    (libCall.fn \in OddsMathFns /\ libCall.done) => Get(libCall.out).raised = ""

\* the lower-cased, trimmed form of the league names
TrimmedLower(name) ==
    CASE name \in {" MLB ", "mlb"} -> "mlb"
      [] name \in {"NBA", "nba"} -> "nba"
      [] name \in {"CFB", "cfb"} -> "cfb"
      [] name \in {" mma ", "mma"} -> "mma"
      [] OTHER -> name

\* C20: _norm_league maps ncaa, cfb and college_football to ncaaf and mma
\* and udc to ufc, in any letter case and with surrounding blanks; every
\* other name comes back lower-cased and trimmed, otherwise unchanged; a
\* league that normalises from cfb selects the NCAAF fetcher; normalising
\* twice gives the same as once.
C20_NormLeague ==
    (libCall.fn = "_norm_league" /\ libCall.done)
        => LET t == TrimmedLower(libCall.arg)
               out == Get(libCall.out)
           IN  /\ t \in {"ncaa", "cfb", "college_football"} => out.once = "ncaaf"
               /\ t \in {"mma", "udc"} => out.once = "ufc"
               /\ t \notin {"ncaa", "cfb", "college_football", "mma", "udc"} => out.once = t
               /\ t = "cfb" => out.fetcher = Some("ncaaf")
               /\ out.twice = out.once

C20_Witness ==
    /\ libCall.fn = "_norm_league" /\ libCall.done
    /\ libCall.arg = "cfb"
    /\ Get(libCall.out) = [once |-> "ncaaf", twice |-> "ncaaf", fetcher |-> Some("ncaaf")]

\* C20 as stated: every name other than the five aliases is left unchanged
C20_OtherNamesUnchanged ==
    (libCall.fn = "_norm_league" /\ libCall.done)
        => LET out == Get(libCall.out) IN
           /\ libCall.arg \in {"ncaa", "cfb", "college_football"} => out.once = "ncaaf"
           /\ libCall.arg \in {"mma", "udc"} => out.once = "ufc"
           /\ libCall.arg \notin {"ncaa", "cfb", "college_football", "mma", "udc"}
                 => out.once = libCall.arg
           /\ libCall.arg = "cfb" => out.fetcher = Some("ncaaf")
           /\ out.twice = out.once

\* the lines, in tenths, of the total-bases offers a feed can carry
TotalBasesLines == 0..40

\* C21: for league mlb _market_ok rejects every batter_total_bases line above
\* 1.5 and accepts every one in [0.5, 1.5]; build_props_novig stores no offer
\* of a total-bases group above 1.5, whatever its prices, and emits no row for
\* it.
C21_TotalBasesAboveOneAndAHalfExcluded ==
    /\ \A line \in TotalBasesLines :
          /\ line > 15 => ~_market_ok("batter_total_bases", line)
          /\ (5 <= line /\ line <= 15) => _market_ok("batter_total_bases", line)
    /\ (libCall.fn = "build_props_novig" /\ libCall.done)
          => \A i \in 1..Len(libCall.arg.raw_offers) :
                LET o == libCall.arg.raw_offers[i] IN
                /\ (o.stat = "batter_total_bases" /\ o.line > 15)
                      => /\ Get(libCall.out).bookmap.order = <<>>
                         /\ IsNone(Get(libCall.out).best)
                /\ (/\ o.stat = "batter_total_bases" /\ o.line <= 15
                    /\ InSeq(LowerWord(o.book), DEFAULT_BOOKS) /\ NotNone(o.odds))
                      => InSeq(LowerWord(o.book), Get(libCall.out).bookmap.order)

\* FanDuel quotes both sides of total bases over 2.5 at -110, a pair that
\* would price at 0.5 each, and the builder emits nothing
C21_Witness ==
    /\ libCall.fn = "build_props_novig" /\ libCall.done
    /\ \E i, j \in 1..Len(libCall.arg.raw_offers) :
          LET o == libCall.arg.raw_offers[i]
              u == libCall.arg.raw_offers[j]
          IN  /\ o.stat = "batter_total_bases" /\ o.line = 25
              /\ o.book = "FanDuel" /\ u.book = "FanDuel"
              /\ o.side = "over" /\ u.side = "Under"
              /\ o.odds = Some(-110) /\ u.odds = Some(-110)
    /\ IsNone(Get(libCall.out).best)

\* the scores |p_over - 0.5| of the candidates each strategy forms for a group
WithinScores(bookmap) ==
    {HalfDistance(Get(no_vig_two_way(bookmap.sides[b].over, bookmap.sides[b].under)[1])) :
        b \in {x \in DOMAIN bookmap.sides :
                  /\ NotNone(bookmap.sides[x].over) /\ NotNone(bookmap.sides[x].under)
                  /\ NotNone(no_vig_two_way(bookmap.sides[x].over,
                                            bookmap.sides[x].under)[1])}}
CrossScores(bookmap) ==
    LET pairs == CrossPairs(bookmap.order, bookmap.sides)
        sumOf(pr) == FracAdd(ProbOrZero(Get(bookmap.sides[pr[1]].over)),
                             ProbOrZero(Get(bookmap.sides[pr[2]].under)))
    IN  {HalfDistance(Frac(Round4(FracDiv(ProbOrZero(Get(bookmap.sides[pairs[i][1]].over)),
                                          sumOf(pairs[i])), TRUE), 10000)) :
            i \in {k \in 1..Len(pairs) : sumOf(pairs[k])[1] > 0}}
SingleScores(bookmap) ==
    {LET q == bookmap.sides[b] IN
     IF NotNone(q.over)
     THEN HalfDistance(Frac(Shrunk(ProbOrZero(Get(q.over)), DEFAULT_OVERROUND), 10000))
     ELSE HalfDistance(Frac(10000 - Shrunk(ProbOrZero(Get(q.under)), DEFAULT_OVERROUND),
                            10000)) :
        b \in {x \in DOMAIN bookmap.sides :
                  NotNone(bookmap.sides[x].over) # NotNone(bookmap.sides[x].under)}}
ScoresOf(source, bookmap) ==
    CASE source = "novig" -> WithinScores(bookmap)
      [] source = "crossbook" -> CrossScores(bookmap)
      [] OTHER -> SingleScores(bookmap)

\* C24: the row build_props_novig keeps for a group has the highest score
\* |p_over - 0.5| among the candidates of the strategy that produced it
\* (within-book, cross-book or single-side): none of them scores strictly
\* higher.
C24_HighestScoreOfItsStrategy ==
    (/\ libCall.fn = "build_props_novig" /\ libCall.done
     /\ NotNone(Get(libCall.out).best))
        => LET best == Get(Get(libCall.out).best) IN
           \A score \in ScoresOf(best.source, Get(libCall.out).bookmap) :
              ~FracLess(HalfDistance(best.fair.prob.over), score)

\* the same for the two pairing strategies that rank their candidates
C24_PairedStrategiesKeepHighest ==
    (/\ libCall.fn = "build_props_novig" /\ libCall.done
     /\ NotNone(Get(libCall.out).best)
     /\ Get(Get(libCall.out).best).source \in {"novig", "crossbook"})
        => LET best == Get(Get(libCall.out).best) IN
           \A score \in ScoresOf(best.source, Get(libCall.out).bookmap) :
              ~FracLess(HalfDistance(best.fair.prob.over), score)

\* the offers of the outcomes that count for a key and side, in feed order
OffersFor(outcomes, key, side) ==
    LET counts(o) ==
            LET sp == _resolve_side_and_player(o.name, o.description) IN
            /\ o.market = "batter_hits" /\ sp[1] = Some(side) /\ sp[2] # ""
            /\ NotNone(o.price)
            /\ <<sp[2], "batter_hits", _norm_point(o.point)>> = key
        counted == SelectSeq(outcomes, counts)
    IN  [i \in 1..Len(counted) |->
            [price |-> Get(counted[i].price), book |-> book_name(counted[i].bk)]]
PairKeys ==
    {<<player, "batter_hits", point>> :
        player \in {"Aaron Judge", "Aaron Judge Over"}, point \in {"0.500", "1.500"}}

\* C22: after _pair_outcomes, for each key and side: if a FanDuel offer was
\* seen, the recorded offer is the first FanDuel one; if offers were seen but
\* none from FanDuel, one offer of a seen book is recorded; if none was seen,
\* nothing is recorded.
C22_FanDuelPreferred ==
    (libCall.fn = "_pair_outcomes" /\ libCall.done)
        => \A key \in PairKeys, side \in {"over", "under"} :
              LET offers == OffersFor(libCall.arg, key, side)
                  fd == SelectSeq(offers, LAMBDA x : x.book = "fanduel")
                  got == SideOf(Get(libCall.out), key)[side]
              IN  /\ fd # <<>> => got = Some(fd[1])
                  /\ (fd = <<>> /\ offers # <<>>)
                        => \E i \in 1..Len(offers) : got = Some(offers[i])
                  /\ offers = <<>> => IsNone(got)
                  /\ DOMAIN Get(libCall.out) \subseteq PairKeys

\* DraftKings, then FanDuel at -110, then FanDuel (by title) at +120 on the
\* same key and side: the -110 offer stays
C22_Witness ==
    /\ libCall.fn = "_pair_outcomes" /\ libCall.done
    /\ Len(libCall.arg) = 3
    /\ book_name(libCall.arg[1].bk) = "draftkings" /\ libCall.arg[1].price = Some(-105)
    /\ libCall.arg[2].price = Some(-110)
    /\ libCall.arg[3].price = Some(120)
    /\ Get(libCall.out)[<<"Aaron Judge", "batter_hits", "0.500">>].over
          = Some([price |-> -110, book |-> "fanduel"])

\* the (player, stat, line) key of a row
PropTriple(prop) == <<prop.player, prop.stat, prop.line>>
MaxOdds(props, triple) ==
    LET odds == {props[i].odds : i \in {k \in 1..Len(props) : PropTriple(props[k]) = triple}}
    IN  CHOOSE o \in odds : \A x \in odds : x <= o

\* C25: deduplicate_props returns exactly one row per distinct (player, stat,
\* line) of the input, that row's odds is the maximum odds of the input rows
\* with that key, and deduplicating the result again returns the same rows.
C25_DedupKeepsMaxOdds ==
    (libCall.fn = "deduplicate_props" /\ libCall.done)
        => LET props == libCall.arg
               once == Get(libCall.out).once
           IN  /\ \A i \in 1..Len(props) :
                     /\ Cardinality({j \in 1..Len(once) :
                            PropTriple(once[j]) = PropTriple(props[i])}) = 1
                     /\ \A j \in 1..Len(once) :
                           PropTriple(once[j]) = PropTriple(props[i])
                              => once[j].odds = MaxOdds(props, PropTriple(props[i]))
               /\ Get(libCall.out).twice = once

\* the same where no row has odds 0 and no two keys join to one string
C25_DedupOfNonZeroOdds ==
    (/\ libCall.fn = "deduplicate_props" /\ libCall.done
     /\ \A i \in 1..Len(libCall.arg) :
           /\ libCall.arg[i].odds # 0
           /\ \A j \in 1..Len(libCall.arg) :
                 DedupKey(libCall.arg[i]) = DedupKey(libCall.arg[j])
                    => PropTriple(libCall.arg[i]) = PropTriple(libCall.arg[j]))
        => LET props == libCall.arg
               once == Get(libCall.out).once
           IN  /\ \A i \in 1..Len(props) :
                     /\ Cardinality({j \in 1..Len(once) :
                            PropTriple(once[j]) = PropTriple(props[i])}) = 1
                     /\ \A j \in 1..Len(once) :
                           PropTriple(once[j]) = PropTriple(props[i])
                              => once[j].odds = MaxOdds(props, PropTriple(props[i]))
               /\ Get(libCall.out).twice = once

\* the set_cached calls made on a key, in order
WritesTo(key) == SelectSeq(written, LAMBDA w : w.key = key)
LastWriteTo(key) == WritesTo(key)[Len(WritesTo(key))]
\* two writes overlap on an empty slot: both callers read the key, before
\* either had written, and both wrote it
Overlapped(key) ==
    /\ Len(WritesTo(key)) >= 2
    /\ WritesTo(key)[1].who # WritesTo(key)[2].who
    /\ WritesTo(key)[1].rkey = key /\ WritesTo(key)[2].rkey = key
    /\ WritesTo(key)[2].seen < Len(written)
    /\ \A i \in 1..WritesTo(key)[2].seen : written[i].key # key

\* C26: overlapping get_or_set calls on an empty slot are not serialized and
\* the last writer wins: a caller that fetched returns what its own fetcher
\* produced; an entry of the store always is the value of the latest
\* set_cached on its key; once two overlapping refreshes have finished the
\* entry is present for as long as the slot lasts (the key is current and no
\* slot boundary has passed); and a read that finds a value returns the value
\* of the latest set_cached.
C26_LastWriterWins ==
    /\ [](\A c \in Callers :
             (caller[c].pc = "done" /\ ~caller[c].hit)
                => \E i \in 1..Len(written) :
                      /\ written[i].who = c /\ written[i].val = caller[c].ret
                      /\ caller[c].ret = caller[c].data)
    /\ [](\A key \in CacheKeys :
             /\ (NotNone(_mem[key]) /\ WritesTo(key) # <<>>)
                   => Get(_mem[key]).val = Dumps(LastWriteTo(key).val)
             /\ (NotNone(_mem[key]) => WritesTo(key) # <<>>)
             /\ (/\ Overlapped(key) /\ _key("mlb", wall) = key
                 /\ SameSlotInterval(LastWriteTo(key).t, wall)) => NotNone(_mem[key]))
    /\ [][\A c \in Callers :
             (caller[c].pc # "done" /\ caller'[c].pc = "done" /\ caller'[c].hit)
                => /\ WritesTo(caller'[c].rkey) # <<>>
                   /\ caller'[c].ret = LastWriteTo(caller'[c].rkey).val]_vars

\* both callers missed on the empty morning slot, c1 wrote props-1 and c2
\* then wrote props-2; c1 calls again and is served props-2
C26_Witness ==
    /\ Len(written) = 2
    /\ Overlapped(written[1].key)
    /\ written[1].who = "c1" /\ written[1].val = "props-1"
    /\ written[2].who = "c2" /\ written[2].val = "props-2"
    /\ written[2].key = written[1].key /\ written[2].seen = 0
    /\ caller["c2"].pc = "done" /\ caller["c2"].ret = "props-2"
    /\ caller["c1"].pc = "done" /\ caller["c1"].hit /\ caller["c1"].ret = "props-2"

\* both verifications read the file before either wrote it, and both wrote
BothLoadedFirst ==
    /\ Len(saved) = 2
    /\ \A b \in Buyers : buyer[b].loadedAfter = 0

\* C27: when two post-purchase verifications both load the file before either
\* saves, the file ends as the last writer's map (the map it read plus its own
\* key), the key shown to the first writer, if it differs from the last
\* writer's, is not in the store, and entering it at /validate-key fails.
C27_LostPurchase ==
    BothLoadedFirst
        => LET first == buyer[saved[1]]
               final == buyer[saved[2]]
           IN  /\ NotNone(LICENSE_DB)
               /\ DOMAIN Get(LICENSE_DB) = DOMAIN final.keys \cup {final.key}
               /\ Get(LICENSE_DB)[final.key] = CustomerOf(saved[2]).rec
               /\ \A k \in DOMAIN final.keys \ {final.key} :
                     Get(LICENSE_DB)[k] = final.keys[k]
               /\ first.key # final.key
                     => /\ first.key \notin DOMAIN Get(LICENSE_DB)
                        /\ (first.pc = "checked" /\ first.checkedAfter = 2)
                              => first.valid = "invalid"

\* Jane and John both read the store holding smith1234; Jane's doe0417 is
\* written first, John's doe9000 last; Jane enters doe0417 and is refused
C27_Witness ==
    /\ BothLoadedFirst
    /\ saved = <<"jane", "john">>
    /\ buyer["jane"].key # buyer["john"].key
    /\ DOMAIN Get(LICENSE_DB) = {SMITH_KEY, buyer["john"].key}
    /\ buyer["jane"].pc = "checked" /\ buyer["jane"].checkedAfter = 2
    /\ buyer["jane"].valid = "invalid"
    /\ buyer["john"].pc = "checked" /\ buyer["john"].valid = "premium"

\* C28: whatever lookups fail and in whatever order the calls finish,
\* enrich_player_props returns a list as long as its input whose i-th element
\* is the i-th input enriched: the row's own fields are kept, a failed
\* contextual lookup gives hit rate 0.30 and a failed fantasy lookup 0.35, and
\* a row whose enrichment failed as a whole carries both fallbacks and
\* enriched = False.  Every call finishes with a row: none raises.
C28_EnrichmentIsolatesFailures ==
    /\ \A i \in DOMAIN future : future[i].state = "done" => NotNone(future[i].result)
    /\ NotNone(enriched_props)
          => LET out == Get(enriched_props) IN
             /\ Len(out) = Len(batch)
             /\ \A i \in 1..Len(batch) :
                   /\ out[i].player = batch[i].player
                   /\ out[i].shop = batch[i].shop
                   /\ out[i].odds = batch[i].odds
                   /\ NotNone(out[i].contextual_hit_rate)
                   /\ NotNone(out[i].fantasy_hit_rate)
                   /\ (future[i].env.ctx # "ok" \/ IsNone(batch[i].player))
                         => Get(out[i].contextual_hit_rate).hit_rate = 300
                   /\ (future[i].env.fan # "ok" \/ IsNone(batch[i].player))
                         => Get(out[i].fantasy_hit_rate).hit_rate = 350
                   /\ (future[i].env.ctx = "ok" /\ NotNone(batch[i].player))
                         => Get(out[i].contextual_hit_rate).hit_rate = future[i].env.rate
                   /\ out[i].enriched = Some(NotNone(batch[i].player))

\* two props; the second call finishes first; the first prop's contextual
\* and fantasy lookups raise and it is returned, first, with 0.30 and 0.35
C28_Witness ==
    /\ NotNone(enriched_props)
    /\ Len(batch) = 2 /\ batch[1] # batch[2]
    /\ completed = <<2, 1>>
    /\ future[1].env.ctx = "raise" /\ future[1].env.fan = "raise"
    /\ future[2].env.ctx = "ok" /\ future[2].env.fan = "ok"
    /\ Get(enriched_props)[1].player = Some("Mookie Betts")
    /\ Get(Get(enriched_props)[1].contextual_hit_rate).hit_rate = 300
    /\ Get(Get(enriched_props)[1].fantasy_hit_rate).hit_rate = 350
    /\ Get(Get(enriched_props)[2].contextual_hit_rate).hit_rate = 420

\* C30: for ncaaf and ufc, the props /player_props returns for a request with
\* date parameter d were fetched with date d; a cached request never returns
\* rows an earlier request of the slot fetched for another date.
C30_PropsAreOfRequestedDate ==
    (/\ last.ep = "get_props" /\ last.ran /\ last.resp = "200"
     /\ _norm_league(last.league) \in {"ncaaf", "ufc"})
        => Get(last.body).date = last.date

\* with nocache=1 the handler fetches with the request's date and returns that
C30_NocacheIsOfRequestedDate ==
    (/\ last.ep = "get_props" /\ last.ran /\ last.resp = "200"
     /\ _norm_league(last.league) \in {"ncaaf", "ufc"}
     /\ last.fetched # {})
        => Get(last.body).date = last.date

\* C29: a session's licensed flag turns on only in a request of that session
\* that presents the master key to /validate-key, or presents to
\* /validate-key, /dashboard or /dashboard_legacy a key of the license store
\* as it is at that moment; no other route sets it; a failed validation
\* leaves the sessions as they were; /logout clears the flag, and a session
\* without the flag is redirected to the paywall on a protected route.
GrantingRoutes == {"validate_key", "dashboard", "dashboard_legacy"}
C29_LicensedOnlyByKey ==
    [][/\ \A s \in Sessions :
             (session'[s].licensed /\ ~session[s].licensed)
                => /\ last'.sess = s /\ last'.ran
                   /\ last'.ep \in GrantingRoutes
                   /\ \/ last'.ep = "validate_key" /\ last'.keyForm = "master"
                      \/ last'.keyForm \in StoredKeyForms /\ ~LoadFails(license_db)
       /\ \A s \in Sessions :
             (session[s].licensed /\ ~session'[s].licensed)
                => last'.ep = "logout" /\ last'.sess = s
       /\ (last'.ep \in GrantingRoutes
           /\ last'.resp \in {"json:valid_false", "500"}) => session' = session
       /\ last'.ep \notin GrantingRoutes \cup {"logout"} => session' = session
       /\ last'.ep = "logout" => session'[last'.sess] = Anonymous
       /\ (last'.ep = "perf_recent" /\ ~session[last'.sess].licensed)
             => last'.resp = "redirect:paywall" /\ ~last'.ran
      ]_vars

\* a session that was not licensed presents a stored key in upper case to
\* /dashboard_legacy and is licensed, while the other session is not
C29_Witness ==
    /\ last.ep = "dashboard_legacy" /\ last.keyForm = "upper"
    /\ ~last.licensedBefore
    /\ session[last.sess].licensed
    /\ \E s \in Sessions : ~session[s].licensed

=============================================================================
